---- MODULE Spec2Model ----
(***************************************************************************)
(* Legasi lending protocol: the position ledger (legasi-lending), the GAD  *)
(* engine (legasi-gad, and the single-asset legasi-credit variant), the    *)
(* liquidity pool (legasi-lp) and the GAD rate curve.                      *)
(*                                                                         *)
(* All modelled quantities stay below 2^31, so within the bounds the       *)
(* checked_* operations of the source never overflow and `as u64` never    *)
(* truncates; the one place where the machine width decides the result     *)
(* (the rate curve on arbitrary u64 inputs) is modelled on byte limbs.     *)
(***************************************************************************)
EXTENDS Integers, Sequences, FiniteSets, TLC

VARIABLES
    now,             \* Clock::get()?.unix_timestamp
    position,        \* legasi-lending / legasi-gad Position account
    sol_price_feed,  \* legasi-core PriceFeed account of SOL
    sol_vault,       \* lamports held by the position's sol_vault PDA
    lending_vault,   \* token balance of the lending vault, per borrowable asset
    result,          \* outcome of the last instruction: [op, err, ...]
    credit_position, \* legasi-credit Position account
    credit_protocol, \* legasi-credit Protocol account (price, totals)
    collateral_vault,\* lamports held by the credit position's vault PDA
    lp_pool,         \* legasi-lp LpPool account
    lp_vault,        \* token balance of the pool's vault
    insurance_fund,  \* protocol.insurance_fund
    rate_in,         \* arguments of a call of a pure function
    token_vault,     \* cbBTC balance of the collateral token vault
    collateral_config, \* legasi-core Collateral account of cbBTC
    agent_config,    \* legasi-lending AgentConfig account of the position
    agent_token_account, \* USDC balance of the agent's token account
    receipts,        \* payment ids that have an X402Receipt account
    leverage_position, \* legasi-leverage LeveragePosition account
    usdc_vault,      \* USDC balance of the legasi-leverage borrow vault
    slot,            \* Clock::get()?.slot
    flash_state,     \* legasi-flash FlashLoanState accounts of the borrower,
                     \* by the slot in their seeds; <<>> where none exists
    user_token_account, \* token balance of the flash borrower
    paused           \* legasi-core protocol.paused

agentVars == <<agent_config, agent_token_account, receipts>>
leverageVars == <<leverage_position, usdc_vault>>
flashVars == <<slot, flash_state, user_token_account>>
lendingVars == <<now, position, sol_price_feed, sol_vault, lending_vault,
                 token_vault, collateral_config, agentVars, leverageVars,
                 flashVars, paused>>
creditVars == <<credit_position, credit_protocol, collateral_vault>>
lpVars == <<lp_pool, lp_vault, insurance_fund>>
tokenVars == <<token_vault, collateral_config>>
\* the accounts the SOL, borrow and GAD instructions are not given
offLedger == <<creditVars, lpVars, rate_in, tokenVars, agentVars, leverageVars,
               flashVars, paused>>
vars == <<now, position, sol_price_feed, sol_vault, lending_vault, result,
          credit_position, credit_protocol, collateral_vault,
          lp_pool, lp_vault, insurance_fund, rate_in,
          token_vault, collateral_config,
          agent_config, agent_token_account, receipts,
          leverage_position, usdc_vault,
          slot, flash_state, user_token_account, paused>>

----------------------------------------------------------------------------
(* Program constants                                                       *)

BPS_DENOMINATOR == 10000
LAMPORTS_PER_SOL == 1000000000
DEFAULT_SOL_MAX_LTV_BPS == 7500
MIN_GAD_CRANK_INTERVAL == 3600
SECONDS_PER_DAY == 86400
CRANKER_REWARD_BPS == 50
INSURANCE_FEE_BPS == 500
FLASH_LOAN_FEE_BPS == 5
MIN_FLASH_LOAN_FEE == 1
PRICE_STALENESS_THRESHOLD == 300
MAX_COLLATERAL_TYPES == 8
MAX_BORROW_TYPES == 4
ACCRUAL_MIN_INTERVAL == 3600
MAX_LTV_BPS == 5000
GAD_START_LTV_BPS == 5000
BASE_RATE_BPS == 300
SLOPE1_BPS == 800
SLOPE2_BPS == 7500
OPTIMAL_UTILIZATION_BPS == 8000
PROTOCOL_FEE_BPS == 2000
MAX_PRICE_AGE == 60
MAX_CONFIDENCE_BPS == 500
SECONDS_PER_YEAR == 31557600

----------------------------------------------------------------------------
(* Bounds and inputs of the model                                          *)

MaxGadHours == 2           \* the GAD clock runs over 0 .. MaxGadHours hours
MaxLamports == 1000000000  \* cap on the collateral a position is given
MaxRepayments == 2         \* cap on reputation.successful_repayments

\* Clock readings (unix seconds): position ledger, GAD
Times == {0, 3600}
GadTimes == { h * 3600 : h \in 0..MaxGadHours }

\* Inputs the instructions are called with (lamports, 6-decimal USD).
DepositAmounts == {1000000000}
WithdrawAmounts == {500000000}
BorrowInputs ==
    { <<"USDC", 0>>, <<"USDC", 100000000>>, <<"USDC", 112500000>>,
      <<"USDC", 112500001>>, <<"EURC", 12500000>>, <<"EURC", 112500000>> }
RepayAmounts == {200000000}
PartialRepayAmounts == {0, 500, 200000000}
Prices == {150000000, 100000000}
GadPrices == {150000000, 149900000, 100000000}
SwapOutputs == {0, 10000000, 200000000}
SwapInputs == {0, 4100000}
SwapMinOut == 5000000
InitialLiquidity == [USDC |-> 200000000, EURC |-> 20000000]
Borrowables == {"USDC", "EURC"}
Signers == {"owner", "stranger"}
MaxSlot == 2
Slots == 0..MaxSlot

----------------------------------------------------------------------------
(* Arithmetic helpers                                                      *)

Min(a, b) == IF a <= b THEN a ELSE b
Max(a, b) == IF a >= b THEN a ELSE b

\* u64/i64 saturating_sub on values of the modelled range
SatSub(a, b) == IF a >= b THEN a - b ELSE 0

\* <<q, r>> with a * b = q * c + r and 0 <= r < c, by doubling over the bits
\* of b, so that no intermediate exceeds 2 * c: the u128 product of the source
RECURSIVE MulDivQR(_, _, _)
MulDivQR(a, b, c) ==
    IF b = 0 THEN <<0, 0>>
    ELSE LET h == MulDivQR(a, b \div 2, c)
             d1 == 2 * h[2]
             d2 == (d1 % c) + (b % 2) * (a % c)
         IN <<2 * h[1] + (d1 \div c) + (b % 2) * (a \div c) + (d2 \div c), d2 % c>>

\* (a as u128).checked_mul(b).checked_div(c): floor(a * b / c)
MulDiv(a, b, c) ==
    LET x == a
        y == b
    IN IF x = 0 \/ y = 0 THEN 0
       ELSE IF x <= y THEN MulDivQR(y, x, c)[1]
       ELSE MulDivQR(x, y, c)[1]

RECURSIVE SumSeq(_)
SumSeq(s) == IF s = <<>> THEN 0 ELSE Head(s) + SumSeq(Tail(s))

\* index of the first entry of asset type a, 0 when there is none
FindIdx(s, a) ==
    IF \E i \in 1..Len(s) : s[i].asset_type = a
    THEN CHOOSE i \in 1..Len(s) :
            /\ s[i].asset_type = a
            /\ \A j \in 1..(i - 1) : s[j].asset_type # a
    ELSE 0

\* what the entry of an asset owes, holds as principal and as interest
OwedOf(pos, a) ==
    LET i == FindIdx(pos.borrows, a)
    IN IF i = 0 THEN 0 ELSE pos.borrows[i].amount + pos.borrows[i].accrued_interest

PrincipalOf(pos, a) ==
    LET i == FindIdx(pos.borrows, a) IN IF i = 0 THEN 0 ELSE pos.borrows[i].amount

InterestOf(pos, a) ==
    LET i == FindIdx(pos.borrows, a)
    IN IF i = 0 THEN 0 ELSE pos.borrows[i].accrued_interest

NonZeroCollateral(c) == c.amount > 0
NonZeroBorrow(b) == b.amount > 0 \/ b.accrued_interest > 0

----------------------------------------------------------------------------
(* Reputation (legasi-lending)                                             *)

get_score(rep) ==
    LET base == Min(rep.successful_repayments * 50, 500)
        age_bonus == Min((rep.account_age_days \div 30) * 10, 100)
    IN SatSub(base + age_bonus, rep.gad_events * 100)

get_ltv_bonus_bps(rep) ==
    LET s == get_score(rep)
    IN IF s >= 400 THEN 500
       ELSE IF s >= 200 THEN 300
       ELSE IF s >= 100 THEN 100
       ELSE 0

----------------------------------------------------------------------------
(* Valuation (legasi-lending borrow)                                       *)

\* borrow: SOL and CbBTC entries, both valued at the SOL price
lending_collateral_usd(pos, price) ==
    SumSeq([i \in 1..Len(pos.collaterals) |->
        IF pos.collaterals[i].asset_type \in {"SOL", "CbBTC"}
        THEN MulDiv(pos.collaterals[i].amount, price, LAMPORTS_PER_SOL)
        ELSE 0])

\* borrow: principal + accrued interest over all borrow entries
lending_borrow_usd(pos) ==
    SumSeq([i \in 1..Len(pos.borrows) |->
        pos.borrows[i].amount + pos.borrows[i].accrued_interest])

effective_max_ltv(pos) ==
    DEFAULT_SOL_MAX_LTV_BPS + get_ltv_bonus_bps(pos.reputation)

SolAmount(pos) ==
    LET i == FindIdx(pos.collaterals, "SOL")
    IN IF i = 0 THEN 0 ELSE pos.collaterals[i].amount

TotalLamports(pos) ==
    SumSeq([i \in 1..Len(pos.collaterals) |-> pos.collaterals[i].amount])

Outcome(op, err) == [op |-> op, err |-> err]

----------------------------------------------------------------------------
(* legasi-lending instructions                                             *)

\* initialize_position at time 0, the price feed initialised by the admin
NewPosition(t) ==
    [owner |-> "owner", collaterals |-> <<>>, borrows |-> <<>>,
     last_update |-> t, last_gad_crank |-> t,
     gad_enabled |-> TRUE, total_gad_liquidated_usd |-> 0,
     reputation |-> [successful_repayments |-> 0, total_repaid_usd |-> 0,
                     gad_events |-> 0, account_age_days |-> 0]]

\* the accounts of the programs a specification does not exercise
\* register_collateral of cbBTC by the admin, nothing deposited yet
IdleToken ==
    /\ token_vault = 0
    /\ collateral_config = [asset_type |-> "CbBTC", is_active |-> TRUE,
                            total_deposited |-> 0]

\* no configure_agent yet: the AgentConfig account does not exist
IdleAgent ==
    /\ agent_config = <<>>
    /\ agent_token_account = 0
    /\ receipts = {}

\* no open_long yet: the LeveragePosition account does not exist
IdleLeverage ==
    /\ leverage_position = <<>>
    /\ usdc_vault = 0

\* initialize_protocol by the admin
IdleProtocol == paused = FALSE

\* no flash_borrow yet: no FlashLoanState account exists
IdleFlash ==
    /\ slot = 0
    /\ flash_state = [s \in Slots |-> <<>>]
    /\ user_token_account = 0

\* the PriceFeed account legasi-core initialize_price_feed writes
initialize_price_feed(initial_price_usd, t) ==
    [price_usd_6dec |-> initial_price_usd, last_update |-> t,
     confidence |-> <<0, 0, 0, 0, 0, 0, 0, 0>>]

IdleLedger ==
    /\ position = NewPosition(0)
    /\ sol_price_feed = initialize_price_feed(150000000, 0)
    /\ sol_vault = 0
    /\ lending_vault = InitialLiquidity
    /\ IdleToken /\ IdleAgent /\ IdleLeverage /\ IdleFlash /\ IdleProtocol

IdleCredit ==
    /\ credit_position = [collateral_amount |-> 0, borrowed_amount |-> 0]
    /\ credit_protocol = [sol_price_usd_6dec |-> 150000000]
    /\ collateral_vault = 0

IdleLp ==
    /\ lp_pool = [total_deposits |-> 0, total_shares |-> 0,
                  total_borrowed |-> 0, interest_earned |-> 0]
    /\ lp_vault = 0
    /\ insurance_fund = 0

IdleRate == rate_in = <<>>

Init ==
    /\ now = 0
    /\ IdleLedger
    /\ result = Outcome("initialize_position", "Ok")
    /\ IdleCredit /\ IdleLp /\ IdleRate

deposit_sol_err(amount) ==
    IF amount = 0 THEN "InvalidAmount"
    ELSE IF FindIdx(position.collaterals, "SOL") = 0
            /\ Len(position.collaterals) >= MAX_COLLATERAL_TYPES
         THEN "MaxCollateralTypesReached"
    ELSE "Ok"

AddCollateral(cols, asset, amount) ==
    LET i == FindIdx(cols, asset)
    IN IF i # 0
       THEN [cols EXCEPT ![i].amount = @ + amount]
       ELSE Append(cols, [asset_type |-> asset, amount |-> amount])

deposit_sol(amount) ==
    /\ amount <= MaxLamports - TotalLamports(position)
    /\ LET err == deposit_sol_err(amount)
       IN /\ result' = Outcome("deposit_sol", err)
          /\ IF err = "Ok"
             THEN /\ sol_vault' = sol_vault + amount
                  /\ position' = [position EXCEPT
                        !.collaterals = AddCollateral(position.collaterals, "SOL", amount),
                        !.last_update = now]
             ELSE UNCHANGED <<sol_vault, position>>
    /\ UNCHANGED <<now, sol_price_feed, lending_vault>>
    /\ UNCHANGED offLedger

deposit_token_err(amount) ==
    IF amount = 0 THEN "InvalidAmount"
    ELSE IF ~collateral_config.is_active THEN "AssetNotActive"
    ELSE IF FindIdx(position.collaterals, collateral_config.asset_type) = 0
            /\ Len(position.collaterals) >= MAX_COLLATERAL_TYPES
         THEN "MaxCollateralTypesReached"
    ELSE "Ok"

deposit_token(amount) ==
    /\ amount <= MaxLamports - TotalLamports(position)
    /\ LET err == deposit_token_err(amount)
       IN /\ result' = Outcome("deposit_token", err)
          /\ IF err = "Ok"
             THEN /\ token_vault' = token_vault + amount
                  /\ position' = [position EXCEPT
                        !.collaterals = AddCollateral(position.collaterals,
                                            collateral_config.asset_type, amount),
                        !.last_update = now]
                  /\ collateral_config' = [collateral_config EXCEPT
                        !.total_deposited = @ + amount]
             ELSE UNCHANGED <<token_vault, position, collateral_config>>
    /\ UNCHANGED <<now, sol_price_feed, sol_vault, lending_vault>>
    /\ UNCHANGED <<creditVars, lpVars, rate_in, agentVars, leverageVars,
                   flashVars, paused>>

\* borrow with the LTV check made on the new amount alone
borrow_err_ignoring_debt(asset, amount) ==
    LET total_collateral_usd ==
            lending_collateral_usd(position, sol_price_feed.price_usd_6dec)
        max_borrow ==
            MulDiv(total_collateral_usd, effective_max_ltv(position), BPS_DENOMINATOR)
    IN IF amount = 0 THEN "InvalidAmount"
       ELSE IF lending_vault[asset] < amount THEN "InsufficientLiquidity"
       ELSE IF ~(amount <= max_borrow) THEN "ExceedsLTV"
       ELSE "Ok"

\* borrow with a strict LTV comparison
borrow_err_strict(asset, amount) ==
    LET total_collateral_usd ==
            lending_collateral_usd(position, sol_price_feed.price_usd_6dec)
        new_borrow_usd == lending_borrow_usd(position) + amount
        max_borrow ==
            MulDiv(total_collateral_usd, effective_max_ltv(position), BPS_DENOMINATOR)
    IN IF amount = 0 THEN "InvalidAmount"
       ELSE IF lending_vault[asset] < amount THEN "InsufficientLiquidity"
       ELSE IF ~(new_borrow_usd < max_borrow) THEN "ExceedsLTV"
       ELSE "Ok"

borrow_err(asset, amount) ==
    LET total_collateral_usd ==
            lending_collateral_usd(position, sol_price_feed.price_usd_6dec)
        new_borrow_usd == lending_borrow_usd(position) + amount
        max_borrow ==
            MulDiv(total_collateral_usd, effective_max_ltv(position), BPS_DENOMINATOR)
    IN IF amount = 0 THEN "InvalidAmount"
       ELSE IF lending_vault[asset] < amount THEN "InsufficientLiquidity"
       ELSE IF ~(new_borrow_usd <= max_borrow) THEN "ExceedsLTV"
       ELSE IF FindIdx(position.borrows, asset) = 0
               /\ Len(position.borrows) >= MAX_BORROW_TYPES
            THEN "MaxBorrowTypesReached"
       ELSE "Ok"

\* a borrow that pushes a new entry without looking for an existing one
AddBorrow_always_pushes(bs, asset, amount) ==
    Append(bs, [asset_type |-> asset, amount |-> amount,
                accrued_interest |-> 0])

AddBorrow(bs, asset, amount) ==
    LET i == FindIdx(bs, asset)
    IN IF i # 0
       THEN [bs EXCEPT ![i].amount = @ + amount]
       ELSE Append(bs, [asset_type |-> asset, amount |-> amount,
                        accrued_interest |-> 0])

borrow(asset, amount) ==
    /\ LET err == borrow_err(asset, amount)
       IN /\ result' = [op |-> "borrow", err |-> err, asset |-> asset,
                         amount |-> amount]
          /\ IF err = "Ok"
             THEN /\ lending_vault' = [lending_vault EXCEPT ![asset] = @ - amount]
                  /\ position' = [position EXCEPT
                        !.borrows = AddBorrow(position.borrows, asset, amount),
                        !.last_update = now]
             ELSE UNCHANGED <<lending_vault, position>>
    /\ UNCHANGED <<now, sol_price_feed, sol_vault>>
    /\ UNCHANGED offLedger

repay_err(asset, amount) ==
    LET i == FindIdx(position.borrows, asset)
        total_owed == IF i = 0 THEN 0
                      ELSE position.borrows[i].amount
                           + position.borrows[i].accrued_interest
    IN IF amount = 0 THEN "InvalidAmount"
       ELSE IF ~(total_owed > 0) THEN "PositionNotFound"
       ELSE "Ok"

\* interest first, then principal, on the first entry of the asset
PayDown(b, pay) ==
    LET interest_payment == Min(pay, b.accrued_interest)
        principal == SatSub(pay, interest_payment)
    IN [b EXCEPT !.accrued_interest = SatSub(b.accrued_interest, interest_payment),
                 !.amount = SatSub(b.amount, principal)]

repay(asset, amount) ==
    /\ position.reputation.successful_repayments < MaxRepayments
    /\ LET err == repay_err(asset, amount)
           i == FindIdx(position.borrows, asset)
           total_owed == position.borrows[i].amount
                         + position.borrows[i].accrued_interest
           repay_amount == Min(amount, total_owed)
           paid == [position.borrows EXCEPT ![i] = PayDown(position.borrows[i], repay_amount)]
       IN IF err = "Ok"
          THEN /\ result' = [op |-> "repay", err |-> err, asset |-> asset,
                             repay_amount |-> repay_amount]
               /\ lending_vault' = [lending_vault EXCEPT ![asset] = @ + repay_amount]
               /\ position' = [position EXCEPT
                     !.borrows = SelectSeq(paid, NonZeroBorrow),
                     !.reputation.successful_repayments = @ + 1,
                     !.reputation.total_repaid_usd = @ + repay_amount,
                     !.last_update = now]
          ELSE /\ result' = Outcome("repay", err)
               /\ UNCHANGED <<lending_vault, position>>
    /\ UNCHANGED <<now, sol_price_feed, sol_vault>>
    /\ UNCHANGED offLedger

withdraw_sol_err(amount) ==
    LET sol_amount == SolAmount(position)
        remaining == sol_amount - amount
        remaining_value == MulDiv(remaining, sol_price_feed.price_usd_6dec,
                                  LAMPORTS_PER_SOL)
        total_borrow == lending_borrow_usd(position)
        max_borrow == MulDiv(remaining_value, DEFAULT_SOL_MAX_LTV_BPS, BPS_DENOMINATOR)
    IN IF amount = 0 THEN "InvalidAmount"
       ELSE IF ~(sol_amount >= amount) THEN "InsufficientCollateral"
       ELSE IF position.borrows # <<>> /\ ~(total_borrow <= max_borrow)
            THEN "ExceedsLTV"
       ELSE IF sol_vault < amount THEN "TransferFailed"
       ELSE "Ok"

SubCollateral(cols, asset, amount) ==
    LET i == FindIdx(cols, asset)
    IN IF i # 0
       THEN [cols EXCEPT ![i].amount = SatSub(cols[i].amount, amount)]
       ELSE cols

withdraw_sol(amount) ==
    /\ LET err == withdraw_sol_err(amount)
       IN /\ result' = Outcome("withdraw_sol", err)
          /\ IF err = "Ok"
             THEN /\ sol_vault' = sol_vault - amount
                  /\ position' = [position EXCEPT
                        !.collaterals = SelectSeq(
                            SubCollateral(position.collaterals, "SOL", amount),
                            NonZeroCollateral),
                        !.last_update = now]
             ELSE UNCHANGED <<sol_vault, position>>
    /\ UNCHANGED <<now, sol_price_feed, lending_vault>>
    /\ UNCHANGED offLedger

annual_rate_bps(asset) ==
    IF asset = "USDC" THEN 800 ELSE IF asset = "EURC" THEN 700 ELSE 0

\* interest over a year of 365 days
Accrued_calendar_year(b, elapsed) ==
    IF annual_rate_bps(b.asset_type) = 0 \/ b.amount = 0 THEN b
    ELSE [b EXCEPT !.accrued_interest = b.accrued_interest
            + (MulDiv(b.amount, annual_rate_bps(b.asset_type) * elapsed,
                      365 * SECONDS_PER_DAY) \div BPS_DENOMINATOR)]

Accrued(b, elapsed) ==
    IF annual_rate_bps(b.asset_type) = 0 \/ b.amount = 0 THEN b
    ELSE [b EXCEPT !.accrued_interest = b.accrued_interest
            + (MulDiv(b.amount, annual_rate_bps(b.asset_type) * elapsed,
                      SECONDS_PER_YEAR) \div BPS_DENOMINATOR)]

\* an accrual that does not skip a position updated within the last hour
accrue_position_interest_unthrottled ==
    /\ LET elapsed == SatSub(now, position.last_update)
       IN /\ result' = [op |-> "accrue_position_interest", err |-> "Ok",
                         skipped |-> elapsed < ACCRUAL_MIN_INTERVAL]
          /\ position' = [position EXCEPT
                !.borrows = [i \in 1..Len(position.borrows) |->
                                Accrued(position.borrows[i], elapsed)],
                !.last_update = now]
    /\ UNCHANGED <<now, sol_price_feed, sol_vault, lending_vault>>
    /\ UNCHANGED offLedger

\* skipped: the call returned at the throttle
accrue_position_interest ==
    /\ LET elapsed == SatSub(now, position.last_update)
       IN /\ result' = [op |-> "accrue_position_interest", err |-> "Ok",
                         skipped |-> elapsed < ACCRUAL_MIN_INTERVAL]
          /\ IF elapsed < ACCRUAL_MIN_INTERVAL
             THEN UNCHANGED position
             ELSE position' = [position EXCEPT
                    !.borrows = [i \in 1..Len(position.borrows) |->
                                    Accrued(position.borrows[i], elapsed)],
                    !.last_update = now]
    /\ UNCHANGED <<now, sol_price_feed, sol_vault, lending_vault>>
    /\ UNCHANGED offLedger

----------------------------------------------------------------------------
(* legasi-lending: agent instructions                                      *)

AssetTypes == {"SOL", "CbBTC", "USDC", "EURC"}

\* everything an agent instruction leaves alone
agentFrame ==
    UNCHANGED <<now, sol_price_feed, sol_vault, lending_vault, creditVars,
                insurance_fund, rate_in, tokenVars, leverageVars, flashVars, paused>>

\* a limit applied to each borrow on its own
can_borrow_per_call(cfg, amount, current_time) ==
    amount <= cfg.daily_borrow_limit

can_borrow(cfg, amount, current_time) ==
    IF current_time - cfg.period_start >= SECONDS_PER_DAY
    THEN amount <= cfg.daily_borrow_limit
    ELSE cfg.daily_borrowed + amount <= cfg.daily_borrow_limit

record_borrow(cfg, amount, current_time) ==
    IF current_time - cfg.period_start >= SECONDS_PER_DAY
    THEN [cfg EXCEPT !.period_start = current_time, !.daily_borrowed = amount]
    ELSE [cfg EXCEPT !.daily_borrowed = @ + amount]

\* the agent_config account is created by init: a second call finds it in use
configure_agent(signer, daily_borrow_limit, auto_repay_enabled, x402_enabled) ==
    /\ LET err == IF signer # position.owner THEN "ConstraintHasOne"
                  ELSE IF agent_config # <<>> THEN "AccountInUse"
                  ELSE "Ok"
       IN /\ result' = Outcome("configure_agent", err)
          /\ IF err = "Ok"
             THEN agent_config' = [daily_borrow_limit |-> daily_borrow_limit,
                                   daily_borrowed |-> 0,
                                   period_start |-> now,
                                   auto_repay_enabled |-> auto_repay_enabled,
                                   x402_enabled |-> x402_enabled]
             ELSE UNCHANGED agent_config
    /\ UNCHANGED <<position, lp_pool, lp_vault, agent_token_account, receipts>>
    /\ agentFrame

update_agent_config(signer, daily_borrow_limit, auto_repay_enabled, x402_enabled) ==
    /\ LET err == IF signer # position.owner THEN "ConstraintHasOne"
                  ELSE IF agent_config = <<>> THEN "AccountNotInitialized"
                  ELSE "Ok"
       IN /\ result' = Outcome("update_agent_config", err)
          /\ IF err = "Ok"
             THEN agent_config' = [agent_config EXCEPT
                                    !.daily_borrow_limit = daily_borrow_limit,
                                    !.auto_repay_enabled = auto_repay_enabled,
                                    !.x402_enabled = x402_enabled]
             ELSE UNCHANGED agent_config
    /\ UNCHANGED <<position, lp_pool, lp_vault, agent_token_account, receipts>>
    /\ agentFrame

agent_borrow_err(signer, amount) ==
    LET total_collateral_usd ==
            lending_collateral_usd(position, sol_price_feed.price_usd_6dec)
        new_total_borrow == lending_borrow_usd(position) + amount
        max_borrow ==
            MulDiv(total_collateral_usd, effective_max_ltv(position), BPS_DENOMINATOR)
    IN IF agent_config = <<>> THEN "AccountNotInitialized"
       ELSE IF signer # position.owner THEN "ConstraintRaw"
       ELSE IF amount = 0 THEN "InvalidAmount"
       ELSE IF ~can_borrow(agent_config, amount, now) THEN "ExceedsLTV"
       ELSE IF ~(new_total_borrow <= max_borrow) THEN "ExceedsLTV"
       ELSE IF lp_vault < amount THEN "InsufficientFunds"
       ELSE IF FindIdx(position.borrows, "USDC") = 0
               /\ Len(position.borrows) >= 4
            THEN "MaxBorrowTypesReached"
       ELSE "Ok"

agent_borrow(signer, amount) ==
    /\ LET err == agent_borrow_err(signer, amount)
       IN /\ result' = [op |-> "agent_borrow", err |-> err, amount |-> amount]
          /\ IF err = "Ok"
             THEN /\ lp_vault' = lp_vault - amount
                  /\ agent_token_account' = agent_token_account + amount
                  /\ position' = [position EXCEPT
                        !.borrows = AddBorrow(position.borrows, "USDC", amount),
                        !.last_update = now]
                  /\ agent_config' = record_borrow(agent_config, amount, now)
                  /\ lp_pool' = [lp_pool EXCEPT !.total_borrowed = @ + amount]
             ELSE UNCHANGED <<lp_vault, agent_token_account, position,
                              agent_config, lp_pool>>
    /\ UNCHANGED receipts
    /\ agentFrame

\* the payment walks every borrow entry in order, interest before principal;
\* <<entries, remaining>>
RECURSIVE AutoRepay(_, _)
AutoRepay(bs, remaining) ==
    IF bs = <<>> \/ remaining = 0 THEN <<bs, remaining>>
    ELSE LET b == Head(bs)
             interest_payment == Min(remaining, b.accrued_interest)
             after_interest == SatSub(remaining, interest_payment)
             principal_payment == Min(after_interest, b.amount)
             rest == AutoRepay(Tail(bs), SatSub(after_interest, principal_payment))
         IN << <<[b EXCEPT
                    !.accrued_interest = SatSub(b.accrued_interest, interest_payment),
                    !.amount = SatSub(b.amount, principal_payment)]>> \o rest[1],
               rest[2] >>

agent_auto_repay_err(signer, amount) ==
    IF agent_config = <<>> THEN "AccountNotInitialized"
    ELSE IF signer # position.owner THEN "ConstraintRaw"
    ELSE IF amount = 0 THEN "InvalidAmount"
    ELSE IF ~agent_config.auto_repay_enabled THEN "Unauthorized"
    ELSE IF agent_token_account < amount THEN "InsufficientFunds"
    ELSE "Ok"

agent_auto_repay(signer, amount) ==
    /\ position.reputation.successful_repayments < MaxRepayments
    /\ LET err == agent_auto_repay_err(signer, amount)
           paid == AutoRepay(position.borrows, amount)
       IN /\ result' = [op |-> "agent_auto_repay", err |-> err, amount |-> amount]
          /\ IF err = "Ok"
             THEN /\ agent_token_account' = agent_token_account - amount
                  /\ lp_vault' = lp_vault + amount
                  /\ position' = [position EXCEPT
                        !.borrows = SelectSeq(paid[1], NonZeroBorrow),
                        !.last_update = now,
                        !.reputation.successful_repayments = @ + 1,
                        !.reputation.total_repaid_usd = @ + amount]
                  /\ lp_pool' = [lp_pool EXCEPT
                        !.total_borrowed = SatSub(@, SatSub(amount, paid[2]))]
             ELSE UNCHANGED <<agent_token_account, lp_vault, position, lp_pool>>
    /\ UNCHANGED <<agent_config, receipts>>
    /\ agentFrame

\* the entry list after the auto-borrow branch: no bound is checked before
\* the push
X402Borrowed(bs, borrow_amount) == AddBorrow(bs, "USDC", borrow_amount)

\* payment_request: [amount, payment_id, expires_at]. The receipt account is
\* created by init, so a payment id is accepted once. A position whose
\* entries no longer fit the account's space cannot be written back.
x402_pay_err(signer, payment_request, auto_borrow) ==
    LET amount == payment_request.amount
        agent_balance == agent_token_account
        borrows_now == agent_balance < amount /\ auto_borrow
        borrow_amount == SatSub(amount, agent_balance)
    IN IF agent_config = <<>> THEN "AccountNotInitialized"
       ELSE IF payment_request.payment_id \in receipts THEN "AccountInUse"
       ELSE IF signer # position.owner THEN "ConstraintRaw"
       ELSE IF ~(now < payment_request.expires_at /\ amount > 0)
            THEN "InvalidAmount"
       ELSE IF ~agent_config.x402_enabled THEN "Unauthorized"
       ELSE IF borrows_now /\ ~can_borrow(agent_config, borrow_amount, now)
            THEN "ExceedsLTV"
       ELSE IF borrows_now /\ lp_vault < borrow_amount THEN "InsufficientFunds"
       ELSE IF ~borrows_now /\ agent_balance < amount THEN "InsufficientFunds"
       ELSE IF borrows_now
               /\ Len(X402Borrowed(position.borrows, borrow_amount)) > MAX_BORROW_TYPES
            THEN "AccountDidNotSerialize"
       ELSE "Ok"

x402_pay(signer, payment_request, auto_borrow) ==
    /\ LET err == x402_pay_err(signer, payment_request, auto_borrow)
           amount == payment_request.amount
           borrows_now == agent_token_account < amount /\ auto_borrow
           borrow_amount == SatSub(amount, agent_token_account)
       IN /\ result' = [op |-> "x402_pay", err |-> err, amount |-> amount,
                         borrowed |-> IF err = "Ok" /\ borrows_now
                                      THEN borrow_amount ELSE 0]
          /\ IF err = "Ok"
             THEN /\ receipts' = receipts \cup {payment_request.payment_id}
                  /\ IF borrows_now
                     THEN /\ lp_vault' = lp_vault - borrow_amount
                          /\ agent_token_account' =
                                agent_token_account + borrow_amount - amount
                          /\ position' = [position EXCEPT
                                !.borrows = X402Borrowed(position.borrows,
                                                         borrow_amount)]
                          /\ agent_config' =
                                record_borrow(agent_config, borrow_amount, now)
                          /\ lp_pool' = [lp_pool EXCEPT
                                !.total_borrowed = @ + borrow_amount]
                     ELSE /\ agent_token_account' = agent_token_account - amount
                          /\ UNCHANGED <<lp_vault, position, agent_config, lp_pool>>
             ELSE UNCHANGED <<receipts, lp_vault, agent_token_account, position,
                              agent_config, lp_pool>>
    /\ agentFrame

----------------------------------------------------------------------------
(* legasi-leverage                                                         *)

leverageFrame ==
    UNCHANGED <<now, sol_price_feed, lending_vault, creditVars, lpVars,
                rate_in, tokenVars, agentVars, flashVars, paused>>

open_long_err(signer, initial_collateral, leverage_multiplier, min_collateral_received) ==
    LET collateral_value_usd ==
            MulDiv(initial_collateral, sol_price_feed.price_usd_6dec,
                   LAMPORTS_PER_SOL)
        usdc_to_borrow == collateral_value_usd * (leverage_multiplier - 1)
        expected_total_sol == initial_collateral * leverage_multiplier
    IN IF leverage_position # <<>> THEN "AccountInUse"
       ELSE IF signer # position.owner THEN "ConstraintHasOne"
       ELSE IF ~(initial_collateral > 0) THEN "InvalidAmount"
       ELSE IF ~(leverage_multiplier >= 2 /\ leverage_multiplier <= 5)
            THEN "InvalidAmount"
       ELSE IF ~(usdc_vault >= usdc_to_borrow) THEN "InsufficientLiquidity"
       ELSE IF ~(expected_total_sol >= min_collateral_received)
            THEN "SlippageExceeded"
       ELSE IF FindIdx(position.collaterals, "SOL") = 0
               /\ Len(position.collaterals) >= MAX_COLLATERAL_TYPES
            THEN "MaxCollateralTypesReached"
       ELSE IF FindIdx(position.borrows, "USDC") = 0
               /\ Len(position.borrows) >= MAX_BORROW_TYPES
            THEN "MaxBorrowTypesReached"
       ELSE "Ok"

open_long(signer, initial_collateral, leverage_multiplier, min_collateral_received) ==
    /\ initial_collateral <= MaxLamports - TotalLamports(position)
    /\ LET err == open_long_err(signer, initial_collateral, leverage_multiplier,
                                min_collateral_received)
           usdc_to_borrow ==
               MulDiv(initial_collateral, sol_price_feed.price_usd_6dec,
                      LAMPORTS_PER_SOL) * (leverage_multiplier - 1)
       IN /\ result' = [op |-> "open_long", err |-> err,
                         leverage_multiplier |-> leverage_multiplier,
                         borrowed |-> IF err = "Ok" THEN usdc_to_borrow ELSE 0]
          /\ IF err = "Ok"
             THEN /\ sol_vault' = sol_vault + initial_collateral
                  /\ usdc_vault' = usdc_vault - usdc_to_borrow
                  /\ leverage_position' =
                        [initial_collateral |-> initial_collateral,
                         total_collateral |-> initial_collateral,
                         total_borrowed |-> usdc_to_borrow,
                         leverage_multiplier |-> leverage_multiplier,
                         entry_price_usd |-> sol_price_feed.price_usd_6dec,
                         is_active |-> TRUE,
                         opened_at |-> now]
                  /\ position' = [position EXCEPT
                        !.collaterals = AddCollateral(position.collaterals, "SOL",
                                                      initial_collateral),
                        !.borrows = AddBorrow(position.borrows, "USDC",
                                              usdc_to_borrow),
                        !.last_update = now]
             ELSE UNCHANGED <<sol_vault, usdc_vault, leverage_position, position>>
    /\ leverageFrame

\* user_usdc: the balance of the owner's USDC account the debt is paid from
close_position_err(signer, user_usdc) ==
    LET i == FindIdx(position.borrows, "USDC")
        total_owed == IF i = 0 THEN 0
                      ELSE position.borrows[i].amount
                           + position.borrows[i].accrued_interest
    IN IF leverage_position = <<>> THEN "AccountNotInitialized"
       ELSE IF signer # position.owner THEN "ConstraintHasOne"
       ELSE IF ~leverage_position.is_active THEN "PositionNotFound"
       ELSE IF i = 0 THEN "PositionNotFound"
       ELSE IF user_usdc < total_owed THEN "InsufficientFunds"
       ELSE "Ok"

close_position(signer, user_usdc) ==
    /\ position.reputation.successful_repayments < MaxRepayments
    /\ LET err == close_position_err(signer, user_usdc)
           i == FindIdx(position.borrows, "USDC")
           total_owed == position.borrows[i].amount
                         + position.borrows[i].accrued_interest
       IN /\ result' = Outcome("close_position", err)
          /\ IF err = "Ok"
             THEN /\ usdc_vault' = usdc_vault + total_owed
                  /\ position' = [position EXCEPT
                        !.borrows = SelectSeq(position.borrows,
                                        LAMBDA b : b.asset_type # "USDC"),
                        !.last_update = now,
                        !.reputation.successful_repayments = @ + 1,
                        !.reputation.total_repaid_usd = @ + total_owed]
                  /\ leverage_position' =
                        [leverage_position EXCEPT !.is_active = FALSE]
             ELSE UNCHANGED <<usdc_vault, position, leverage_position>>
    /\ UNCHANGED sol_vault
    /\ leverageFrame

update_leverage_collateral_err_unchecked(signer, new_total_collateral) ==
    IF leverage_position = <<>> THEN "AccountNotInitialized"
    ELSE IF signer # position.owner THEN "ConstraintHasOne"
    ELSE IF ~leverage_position.is_active THEN "PositionNotFound"
    ELSE "Ok"

update_leverage_collateral_err(signer, new_total_collateral) ==
    IF leverage_position = <<>> THEN "AccountNotInitialized"
    ELSE IF signer # position.owner THEN "ConstraintHasOne"
    ELSE IF ~leverage_position.is_active THEN "PositionNotFound"
    ELSE IF ~(new_total_collateral >= leverage_position.initial_collateral)
         THEN "InvalidAmount"
    ELSE "Ok"

update_leverage_collateral(signer, new_total_collateral) ==
    /\ LET err == update_leverage_collateral_err(signer, new_total_collateral)
       IN /\ result' = Outcome("update_leverage_collateral", err)
          /\ leverage_position' =
                IF err = "Ok"
                THEN [leverage_position EXCEPT
                        !.total_collateral = new_total_collateral]
                ELSE leverage_position
    /\ UNCHANGED <<position, sol_vault, usdc_vault>>
    /\ leverageFrame

\* one position, its LeveragePosition and the USDC vault open_long lends from
LeverageCollateral == {0, 200000000}
LeverageMultipliers == {1, 2, 5, 6}
LeverageTotals == {199999999, 200000000, 400000000}
LeverageFunds == {0, 200000000}
LeverageLiquidity == 200000000
LeverageBorrow == {20000000}

InitLeverage ==
    /\ now = 0
    /\ position = NewPosition(0)
    /\ sol_price_feed = initialize_price_feed(150000000, 0)
    /\ sol_vault = 0
    /\ lending_vault = InitialLiquidity
    /\ leverage_position = <<>>
    /\ usdc_vault = LeverageLiquidity
    /\ result = Outcome("initialize_position", "Ok")
    /\ IdleToken /\ IdleAgent /\ IdleCredit /\ IdleLp /\ IdleRate /\ IdleFlash /\ IdleProtocol

NextLeverage ==
    \/ \E s \in Signers, a \in LeverageCollateral, m \in LeverageMultipliers :
          open_long(s, a, m, 0)
    \/ \E s \in Signers, t \in LeverageTotals :
          update_leverage_collateral(s, t)
    \/ \E s \in Signers, u \in LeverageFunds : close_position(s, u)
    \/ \E a \in LeverageBorrow : borrow("USDC", a)
    \/ \E a \in RepayAmounts : repay("USDC", a)

SpecLeverage == InitLeverage /\ [][NextLeverage]_vars

----------------------------------------------------------------------------
(* legasi-core                                                             *)

update_price(price_usd) ==
    /\ sol_price_feed' = [sol_price_feed EXCEPT !.price_usd_6dec = price_usd,
                                                !.last_update = now]
    /\ result' = Outcome("update_price", "Ok")
    /\ UNCHANGED <<now, position, sol_vault, lending_vault>>
    /\ UNCHANGED offLedger

----------------------------------------------------------------------------
(* legasi-gad                                                              *)

\* get_gad_rate_bps works on u64 and u128 values of any size. They are
\* modelled as little-endian sequences of byte limbs, 8 for a u64 and 16 for
\* a u128, so that the square, the division and the cast are the machine's.
U64(h3, h2, h1, h0) ==
    <<h0 % 256, h0 \div 256, h1 % 256, h1 \div 256,
      h2 % 256, h2 \div 256, h3 % 256, h3 \div 256>>

\* a value of the modelled range as a u64, and back
ToU64(n) == U64(0, 0, n \div 65536, n % 65536)
FromU64(a) == a[1] + 256 * a[2] + 65536 * a[3] + 16777216 * a[4]

\* a <= b on limb sequences of one length
LimbLe(a, b) ==
    \/ a = b
    \/ \E i \in 1..Len(a) :
            /\ a[i] < b[i]
            /\ \A j \in (i + 1)..Len(a) : a[j] = b[j]

\* a - b for a >= b, limb by limb with borrow
RECURSIVE LimbSubFrom(_, _, _, _)
LimbSubFrom(a, b, i, borrow_in) ==
    IF i > Len(a) THEN <<>>
    ELSE LET d == a[i] - b[i] - borrow_in
         IN <<(d + 256) % 256>>
            \o LimbSubFrom(a, b, i + 1, IF d < 0 THEN 1 ELSE 0)

\* u64::saturating_sub
LimbSatSub(a, b) ==
    IF LimbLe(a, b) THEN [i \in 1..Len(a) |-> 0] ELSE LimbSubFrom(a, b, 1, 0)

RECURSIVE LimbCarry(_, _)
LimbCarry(s, carry) ==
    IF s = <<>> THEN <<>>
    ELSE LET v == Head(s) + carry
         IN <<v % 256>> \o LimbCarry(Tail(s), v \div 256)

\* (a as u128).pow(2) for a u64 a: 16 limbs, never overflowing
LimbSquare(a) ==
    LimbCarry([k \in 1..16 |->
                SumSeq([i \in 1..8 |->
                    IF k + 1 - i >= 1 /\ k + 1 - i <= 8
                    THEN a[i] * a[k + 1 - i]
                    ELSE 0])], 0)

\* division by a small divisor, from the most significant limb down
RECURSIVE LimbDivFrom(_, _, _, _)
LimbDivFrom(a, d, i, rem) ==
    IF i = 0 THEN <<>>
    ELSE LET v == rem * 256 + a[i]
         IN LimbDivFrom(a, d, i - 1, v % d) \o <<v \div d>>

LimbDiv(a, d) == LimbDivFrom(a, d, Len(a), 0)

\* `as u64` on a u128: the low 8 limbs
AsU64(a) == SubSeq(a, 1, 8)

\* legasi-gad get_gad_rate_bps, on u64 limbs
get_gad_rate_bps(current_ltv_bps, max_ltv_bps) ==
    IF LimbLe(current_ltv_bps, max_ltv_bps) THEN ToU64(0)
    ELSE LET excess_bps == LimbSatSub(current_ltv_bps, max_ltv_bps)
             rate == AsU64(LimbDiv(LimbSquare(excess_bps), 100))
         IN IF LimbLe(rate, ToU64(1000)) THEN rate ELSE ToU64(1000)

\* legasi-credit get_gad_rate_bps, on u64 limbs
credit_get_gad_rate_bps(ltv_bps, start_ltv_bps) ==
    IF LimbLe(ltv_bps, start_ltv_bps) THEN ToU64(0)
    ELSE LET excess == LimbSatSub(ltv_bps, start_ltv_bps)
             rate == AsU64(LimbDiv(LimbSquare(excess), 100))
         IN IF LimbLe(rate, ToU64(1000)) THEN rate ELSE ToU64(1000)

\* Reputation's fields are u32: 4 byte limbs, least significant first
ToU32(n) == <<n % 256, (n \div 256) % 256, (n \div 65536) % 256, n \div 16777216>>
FromU32(a) == a[1] + 256 * a[2] + 65536 * a[3] + 16777216 * a[4]

\* a * k for a u32 a and a small k at full width: 5 limbs
LimbScale(a, k) == LimbCarry([i \in 1..5 |-> IF i <= 4 THEN a[i] * k ELSE 0], 0)

\* the u32 `*`: the product when it fits; when it does not, the build decides
\* between a panic (overflow checks on) and the low 32 bits (checks off)
MulU32(a, k, overflow_checks) ==
    LET wide == LimbScale(a, k)
    IN [panic |-> wide[5] # 0 /\ overflow_checks, v |-> SubSeq(wide, 1, 4)]

MinU32(a, b) == IF LimbLe(a, b) THEN a ELSE b

\* Reputation::get_score on u32 limbs; panic when a product panics
get_score_u32(successful_repayments, account_age_days, gad_events, overflow_checks) ==
    LET repaid == MulU32(successful_repayments, 50, overflow_checks)
        aged == MulU32(SubSeq(LimbDiv(account_age_days, 30), 1, 4), 10,
                       overflow_checks)
        penalty == MulU32(gad_events, 100, overflow_checks)
        base == MinU32(repaid.v, ToU32(500))
        age_bonus == MinU32(aged.v, ToU32(100))
        sum == ToU32(FromU32(base) + FromU32(age_bonus))
    IN [panic |-> repaid.panic \/ aged.panic \/ penalty.panic,
        score |-> FromU32(LimbSatSub(sum, penalty.v))]

\* u32::saturating_add(1)
SatIncU32(a) ==
    IF a = <<255, 255, 255, 255>> THEN a
    ELSE LimbCarry(<<a[1] + 1, a[2], a[3], a[4]>>, 0)

\* Reputation::get_ltv_bonus_bps on a score
ltv_bonus_of_score(s) ==
    IF s >= 400 THEN 500
    ELSE IF s >= 200 THEN 300
    ELSE IF s >= 100 THEN 100
    ELSE 0

\* `as u128` on a u64: 16 limbs
AsU128(a) == a \o [i \in 1..8 |-> 0]

\* a * k for a u128 a and a small k; the products of the rate model stay
\* below 2^128, so saturating_mul does not saturate
LimbTimes(a, k) == LimbCarry([i \in 1..16 |-> a[i] * k], 0)

\* u64::saturating_add
LimbSatAdd(a, b) ==
    LET wide == LimbCarry([i \in 1..9 |-> IF i <= 8 THEN a[i] + b[i] ELSE 0], 0)
    IN IF wide[9] # 0 THEN [i \in 1..8 |-> 255] ELSE SubSeq(wide, 1, 8)

\* legasi-core calculate_borrow_rate on u64 limbs; total_deposits is taken
\* from the range a limb division handles
calculate_borrow_rate(total_deposits, total_borrowed) ==
    IF total_deposits = ToU64(0) THEN ToU64(BASE_RATE_BPS)
    ELSE LET utilization_bps ==
                 AsU64(LimbDiv(LimbTimes(AsU128(total_borrowed), 10000),
                               FromU64(total_deposits)))
         IN IF LimbLe(utilization_bps, ToU64(OPTIMAL_UTILIZATION_BPS))
            THEN LET rate_increase ==
                         AsU64(LimbDiv(LimbTimes(AsU128(utilization_bps),
                                                 SLOPE1_BPS),
                                       OPTIMAL_UTILIZATION_BPS))
                 IN LimbSatAdd(ToU64(BASE_RATE_BPS), rate_increase)
            ELSE LET excess_utilization ==
                         LimbSatSub(utilization_bps,
                                    ToU64(OPTIMAL_UTILIZATION_BPS))
                     remaining_utilization ==
                         FromU64(LimbSatSub(ToU64(10000),
                                            ToU64(OPTIMAL_UTILIZATION_BPS)))
                     steep_increase ==
                         AsU64(LimbDiv(LimbTimes(AsU128(excess_utilization),
                                                 SLOPE2_BPS),
                                       remaining_utilization))
                 IN LimbSatAdd(LimbSatAdd(ToU64(BASE_RATE_BPS),
                                          ToU64(SLOPE1_BPS)),
                               steep_increase)

\* (a as u128) * (b as u128) for u64 a and b: 16 limbs, never saturating
LimbMul(a, b) ==
    LimbCarry([k \in 1..16 |->
                SumSeq([i \in 1..8 |->
                    IF k + 1 - i >= 1 /\ k + 1 - i <= 8
                    THEN a[i] * b[k + 1 - i]
                    ELSE 0])], 0)

\* u64::saturating_mul by a small factor
LimbSatTimes(a, k) ==
    LET wide == LimbTimes(AsU128(a), k)
    IN IF \E i \in 9..16 : wide[i] # 0 THEN [i \in 1..8 |-> 255]
       ELSE AsU64(wide)

\* the supply rate with the protocol fee left in
calculate_supply_rate_no_fee(total_deposits, total_borrowed) ==
    IF total_deposits = ToU64(0) THEN ToU64(0)
    ELSE LET borrow_rate == calculate_borrow_rate(total_deposits, total_borrowed)
             utilization_bps ==
                 AsU64(LimbDiv(LimbTimes(AsU128(total_borrowed), 10000),
                               FromU64(total_deposits)))
         IN AsU64(LimbDiv(LimbMul(borrow_rate, utilization_bps), 10000))

\* legasi-core calculate_supply_rate on u64 limbs
calculate_supply_rate(total_deposits, total_borrowed) ==
    IF total_deposits = ToU64(0) THEN ToU64(0)
    ELSE LET borrow_rate == calculate_borrow_rate(total_deposits, total_borrowed)
             utilization_bps ==
                 AsU64(LimbDiv(LimbTimes(AsU128(total_borrowed), 10000),
                               FromU64(total_deposits)))
             gross_supply_rate ==
                 AsU64(LimbDiv(LimbMul(borrow_rate, utilization_bps), 10000))
             net_supply_rate ==
                 LimbDiv(LimbSatTimes(gross_supply_rate,
                                      FromU64(LimbSatSub(ToU64(10000),
                                                         ToU64(PROTOCOL_FEE_BPS)))),
                         10000)
         IN net_supply_rate

----------------------------------------------------------------------------
(* legasi-core: Pyth quotes                                                *)

\* i64 values are 8 limbs in two's complement
IsNegative(a) == a[8] >= 128
Negated(a) == LimbSubFrom([i \in 1..8 |-> 0], a, 1, 0)
ToI64(n) == IF n >= 0 THEN ToU64(n) ELSE Negated(ToU64(0 - n))

\* a + b at full width: 9 limbs
LimbSum(a, b) ==
    LimbCarry([i \in 1..9 |-> IF i <= 8 THEN a[i] + b[i] ELSE 0], 0)

\* PythPrice::is_stale: current_time - publish_time > max_age_seconds in
\* i64. When the difference does not fit, the build decides between a panic
\* and the wrapped, negative difference.
is_stale(publish_time, current_time, max_age_seconds, overflow_checks) ==
    IF ~IsNegative(publish_time)
    THEN IF LimbLe(AsU64(LimbSum(publish_time, ToU64(max_age_seconds + 1))),
                   ToU64(current_time))
         THEN "stale" ELSE "fresh"
    ELSE LET difference == LimbSum(ToU64(current_time), Negated(publish_time))
         IN IF difference[9] # 0 \/ difference[8] >= 128
            THEN IF overflow_checks THEN "panic" ELSE "fresh"
            ELSE IF LimbLe(difference, ToU64(max_age_seconds) \o <<0>>)
                 THEN "fresh" ELSE "stale"

\* PythPrice::confidence_bps; the price is taken from the range a limb
\* division handles
confidence_bps(price, conf) ==
    IF IsNegative(price) \/ price = ToU64(0) THEN ToU64(10000)
    ELSE AsU64(LimbDiv(LimbTimes(AsU128(conf), 10000), FromU64(price)))

\* a * 10^n on 24 limbs
RECURSIVE TimesPow10(_, _)
TimesPow10(a, n) ==
    IF n = 0 THEN a
    ELSE TimesPow10(LimbCarry([i \in 1..24 |-> a[i] * 10], 0), n - 1)

\* floor(a / 10^n)
RECURSIVE DivPow10(_, _)
DivPow10(a, n) == IF n = 0 THEN a ELSE DivPow10(LimbDiv(a, 10), n - 1)

\* PythPrice::to_usd_6dec for exponents with 10^|6 + expo| below 2^128:
\* checked_mul gives 0 when the product passes 2^128, and the result is cast
\* to u64
to_usd_6dec(price, expo) ==
    IF IsNegative(price) \/ price = ToU64(0) THEN ToU64(0)
    ELSE LET adjustment == 6 + expo
         IN IF adjustment > 0
            THEN LET product == TimesPow10(price \o [i \in 1..16 |-> 0],
                                           adjustment)
                 IN IF \E i \in 17..24 : product[i] # 0 THEN ToU64(0)
                    ELSE AsU64(product)
            ELSE IF adjustment < 0
            THEN AsU64(DivPow10(AsU128(price), 0 - adjustment))
            ELSE price

\* quote: the PythPrice parsed from the account passed in, or <<>> when the
\* account holds fewer than 240 bytes. The account is not checked, so any
\* caller supplies any quote.
sync_pyth_price_err(quote, overflow_checks) ==
    IF quote = <<>> THEN "InvalidOracle"
    ELSE LET staleness == is_stale(quote.publish_time, now, MAX_PRICE_AGE,
                                   overflow_checks)
         IN IF staleness = "panic" THEN "Panic"
            ELSE IF staleness = "stale" THEN "StalePriceFeed"
            ELSE IF ~LimbLe(confidence_bps(quote.price, quote.conf),
                            ToU64(MAX_CONFIDENCE_BPS))
                 THEN "InvalidOracle"
            ELSE "Ok"

\* the quotes of the specifications convert to prices of the modelled range
sync_pyth_price(quote) ==
    /\ \E overflow_checks \in BOOLEAN :
         LET err == sync_pyth_price_err(quote, overflow_checks)
         IN /\ result' = [op |-> "sync_pyth_price", err |-> err,
                           quote |-> quote]
            /\ IF err = "Ok"
               THEN sol_price_feed' =
                        [price_usd_6dec |->
                             FromU64(to_usd_6dec(quote.price, quote.expo)),
                         confidence |-> quote.conf,
                         last_update |-> now]
               ELSE UNCHANGED sol_price_feed
    /\ UNCHANGED <<now, position, sol_vault, lending_vault>>
    /\ UNCHANGED offLedger

calculate_collateral_value(pos, feed) ==
    SumSeq([i \in 1..Len(pos.collaterals) |->
        IF pos.collaterals[i].asset_type = "SOL"
        THEN MulDiv(pos.collaterals[i].amount, feed.price_usd_6dec, LAMPORTS_PER_SOL)
        ELSE 0])

calculate_borrow_value(pos) ==
    SumSeq([i \in 1..Len(pos.borrows) |->
        IF pos.borrows[i].asset_type \in {"USDC", "EURC"}
        THEN pos.borrows[i].amount + pos.borrows[i].accrued_interest
        ELSE 0])

\* the position account is bound to the signer by its seeds and has_one
configure_gad(signer, enabled) ==
    /\ IF signer = position.owner
       THEN /\ position' = [position EXCEPT !.gad_enabled = enabled]
            /\ result' = [op |-> "configure_gad", err |-> "Ok",
                          signer |-> signer]
       ELSE /\ UNCHANGED position
            /\ result' = [op |-> "configure_gad", err |-> "ConstraintHasOne",
                          signer |-> signer]
    /\ UNCHANGED <<now, sol_price_feed, sol_vault, lending_vault>>
    /\ UNCHANGED offLedger

\* the quantities crank_gad computes on the way, in the order of the code
CrankCalc(pos, feed, t) ==
    LET elapsed == SatSub(t, pos.last_gad_crank)
        total_collateral_usd == calculate_collateral_value(pos, feed)
        total_borrow_usd == calculate_borrow_value(pos)
        current_ltv_bps == IF total_collateral_usd = 0 THEN 0
                           ELSE MulDiv(total_borrow_usd, BPS_DENOMINATOR,
                                       total_collateral_usd)
        gad_rate_bps == FromU64(get_gad_rate_bps(ToU64(current_ltv_bps),
                                                 ToU64(DEFAULT_SOL_MAX_LTV_BPS)))
        time_fraction == MulDiv(elapsed, BPS_DENOMINATOR, SECONDS_PER_DAY)
        liquidate_fraction_bps == (gad_rate_bps * time_fraction) \div BPS_DENOMINATOR
        sol_to_liquidate == MulDiv(SolAmount(pos), liquidate_fraction_bps,
                                   BPS_DENOMINATOR)
        liquidated_usd == MulDiv(sol_to_liquidate, feed.price_usd_6dec,
                                 LAMPORTS_PER_SOL)
        cranker_reward == MulDiv(sol_to_liquidate, CRANKER_REWARD_BPS,
                                 BPS_DENOMINATOR)
    IN [elapsed |-> elapsed,
        total_collateral_usd |-> total_collateral_usd,
        total_borrow_usd |-> total_borrow_usd,
        current_ltv_bps |-> current_ltv_bps,
        gad_rate_bps |-> gad_rate_bps,
        sol_to_liquidate |-> sol_to_liquidate,
        liquidated_usd |-> liquidated_usd,
        debt_reduction |-> Min(liquidated_usd, total_borrow_usd),
        cranker_reward |-> cranker_reward,
        total_sol_deducted |-> sol_to_liquidate + cranker_reward]

\* crank_gad without the owner's opt-out
crank_gad_err_no_opt_out(pos, feed, t, vault) ==
    IF pos.borrows = <<>> THEN "NoDebtToDeleverage"
    ELSE IF ~(SatSub(t, pos.last_gad_crank) >= MIN_GAD_CRANK_INTERVAL)
         THEN "CrankTooSoon"
    ELSE LET c == CrankCalc(pos, feed, t)
         IN IF ~(c.total_collateral_usd > 0) THEN "InsufficientCollateral"
            ELSE IF ~(c.current_ltv_bps > DEFAULT_SOL_MAX_LTV_BPS)
                 THEN "LtvBelowGadThreshold"
            ELSE IF ~(c.gad_rate_bps > 0) THEN "NothingToLiquidate"
            ELSE IF FindIdx(pos.collaterals, "SOL") = 0
                 THEN "InsufficientCollateral"
            ELSE IF ~(c.sol_to_liquidate > 0) THEN "NothingToLiquidate"
            ELSE IF vault < c.total_sol_deducted THEN "TransferFailed"
            ELSE "Ok"

crank_gad_err(pos, feed, t, vault) ==
    IF ~pos.gad_enabled THEN "GadDisabled"
    ELSE IF pos.borrows = <<>> THEN "NoDebtToDeleverage"
    ELSE IF ~(SatSub(t, pos.last_gad_crank) >= MIN_GAD_CRANK_INTERVAL)
         THEN "CrankTooSoon"
    ELSE LET c == CrankCalc(pos, feed, t)
         IN IF ~(c.total_collateral_usd > 0) THEN "InsufficientCollateral"
            ELSE IF ~(c.current_ltv_bps > DEFAULT_SOL_MAX_LTV_BPS)
                 THEN "LtvBelowGadThreshold"
            ELSE IF ~(c.gad_rate_bps > 0) THEN "NothingToLiquidate"
            ELSE IF FindIdx(pos.collaterals, "SOL") = 0
                 THEN "InsufficientCollateral"
            ELSE IF ~(c.sol_to_liquidate > 0) THEN "NothingToLiquidate"
            ELSE IF vault < c.total_sol_deducted THEN "TransferFailed"
            ELSE "Ok"

\* the debt reduction walks the borrow entries in order, interest first
RECURSIVE ReduceDebt(_, _)
ReduceDebt(bs, remaining_reduction) ==
    IF bs = <<>> \/ remaining_reduction = 0 THEN bs
    ELSE LET borrow_total == Head(bs).amount + Head(bs).accrued_interest
             reduction == Min(remaining_reduction, borrow_total)
         IN <<PayDown(Head(bs), reduction)>>
            \o ReduceDebt(Tail(bs), SatSub(remaining_reduction, reduction))

\* a crank that lowers the ledger by the liquidated amount only
CrankedPosition_reward_off_ledger(pos, feed, t) ==
    LET c == CrankCalc(pos, feed, t)
    IN [pos EXCEPT
        !.collaterals = SelectSeq(
            SubCollateral(pos.collaterals, "SOL", c.sol_to_liquidate),
            NonZeroCollateral),
        !.borrows = SelectSeq(ReduceDebt(pos.borrows, c.debt_reduction),
                              NonZeroBorrow),
        !.last_gad_crank = t,
        !.total_gad_liquidated_usd = pos.total_gad_liquidated_usd + c.liquidated_usd,
        !.reputation.gad_events = pos.reputation.gad_events + 1,
        !.last_update = t]

\* the position a successful crank_gad at time t leaves
CrankedPosition(pos, feed, t) ==
    LET c == CrankCalc(pos, feed, t)
    IN [pos EXCEPT
        !.collaterals = SelectSeq(
            SubCollateral(pos.collaterals, "SOL", c.total_sol_deducted),
            NonZeroCollateral),
        !.borrows = SelectSeq(ReduceDebt(pos.borrows, c.debt_reduction),
                              NonZeroBorrow),
        !.last_gad_crank = t,
        !.total_gad_liquidated_usd = pos.total_gad_liquidated_usd + c.liquidated_usd,
        !.reputation.gad_events = pos.reputation.gad_events + 1,
        !.last_update = t]

\* crank_gad whose first transfer stays when the second one fails
crank_gad_first_transfer_kept ==
    /\ LET err == crank_gad_err(position, sol_price_feed, now, sol_vault)
           c == CrankCalc(position, sol_price_feed, now)
       IN IF err = "Ok"
          THEN /\ result' = [op |-> "crank_gad", err |-> err,
                             ltv_before_bps |-> c.current_ltv_bps,
                             gad_rate_bps |-> c.gad_rate_bps,
                             collateral_liquidated_usd |-> c.liquidated_usd,
                             debt_reduced_usd |-> c.debt_reduction,
                             cranker_reward |-> c.cranker_reward]
               /\ sol_vault' = sol_vault - c.total_sol_deducted
               /\ position' = CrankedPosition(position, sol_price_feed, now)
          ELSE /\ result' = Outcome("crank_gad", err)
               /\ sol_vault' = IF err = "TransferFailed"
                                  /\ sol_vault >= c.sol_to_liquidate
                               THEN sol_vault - c.sol_to_liquidate
                               ELSE sol_vault
               /\ UNCHANGED position
    /\ UNCHANGED <<now, sol_price_feed, lending_vault>>
    /\ UNCHANGED offLedger

crank_gad ==
    /\ LET err == crank_gad_err(position, sol_price_feed, now, sol_vault)
           c == CrankCalc(position, sol_price_feed, now)
       IN IF err = "Ok"
          THEN /\ result' = [op |-> "crank_gad", err |-> err,
                             ltv_before_bps |-> c.current_ltv_bps,
                             gad_rate_bps |-> c.gad_rate_bps,
                             collateral_liquidated_usd |-> c.liquidated_usd,
                             debt_reduced_usd |-> c.debt_reduction,
                             cranker_reward |-> c.cranker_reward]
               /\ sol_vault' = sol_vault - c.total_sol_deducted
               /\ position' = CrankedPosition(position, sol_price_feed, now)
          ELSE /\ result' = Outcome("crank_gad", err)
               /\ UNCHANGED <<sol_vault, position>>
    /\ UNCHANGED <<now, sol_price_feed, lending_vault>>
    /\ UNCHANGED offLedger

\* the swap crank without its interval guard
crank_gad_with_swap_err_no_interval(pos, t, sol_in, usdc_vault_amount, min_out_amount) ==
    IF ~pos.gad_enabled THEN "GadDisabled"
    ELSE IF pos.borrows = <<>> THEN "NoDebtToDeleverage"
    ELSE IF sol_vault < sol_in THEN "SwapFailed"
    ELSE IF ~(usdc_vault_amount >= min_out_amount) THEN "SlippageExceeded"
    ELSE "Ok"

crank_gad_with_swap_err(pos, t, sol_in, usdc_vault_amount, min_out_amount) ==
    IF ~pos.gad_enabled THEN "GadDisabled"
    ELSE IF pos.borrows = <<>> THEN "NoDebtToDeleverage"
    ELSE IF ~(SatSub(t, pos.last_gad_crank) >= MIN_GAD_CRANK_INTERVAL)
         THEN "CrankTooSoon"
    ELSE IF sol_vault < sol_in THEN "SwapFailed"
    ELSE IF ~(usdc_vault_amount >= min_out_amount) THEN "SlippageExceeded"
    ELSE "Ok"

\* sol_in: the lamports the Jupiter route takes from sol_vault;
\* usdc_vault_amount: the balance of the usdc_vault account after the swap
crank_gad_with_swap(sol_in, usdc_vault_amount, min_out_amount) ==
    /\ LET err == crank_gad_with_swap_err(position, now, sol_in,
                                          usdc_vault_amount, min_out_amount)
           i == FindIdx(position.borrows, "USDC")
           usdc_received == usdc_vault_amount
           total_debt == position.borrows[i].amount
                         + position.borrows[i].accrued_interest
           reduction == Min(usdc_received, total_debt)
       IN /\ result' = Outcome("crank_gad_with_swap", err)
          /\ IF err = "Ok"
             THEN /\ sol_vault' = sol_vault - sol_in
                  /\ position' = [position EXCEPT
                        !.borrows = IF i = 0 THEN position.borrows
                                    ELSE [position.borrows EXCEPT
                                            ![i] = PayDown(position.borrows[i], reduction)],
                        !.last_gad_crank = now,
                        !.reputation.gad_events = @ + 1]
             ELSE UNCHANGED <<sol_vault, position>>
    /\ UNCHANGED <<now, sol_price_feed, lending_vault>>
    /\ UNCHANGED offLedger

\* the clock advances to a later reading
Tick(times) ==
    /\ \E t \in times : t > now /\ now' = t
    /\ UNCHANGED <<position, sol_price_feed, sol_vault, lending_vault, result>>
    /\ UNCHANGED offLedger

Next ==
    \/ \E a \in DepositAmounts : deposit_sol(a)
    \/ \E i \in BorrowInputs : borrow(i[1], i[2])
    \/ \E b \in Borrowables, a \in RepayAmounts : repay(b, a)
    \/ \E a \in WithdrawAmounts : withdraw_sol(a)
    \/ accrue_position_interest
    \/ \E p \in Prices : update_price(p)
    \/ Tick(Times)

Spec == Init /\ [][Next]_vars

----------------------------------------------------------------------------
(* GAD on funded positions                                                 *)

\* positions as deposit_sol and borrow leave them at time 0
GadBorrows ==
    { <<>>,
      <<[asset_type |-> "USDC", amount |-> 112500000, accrued_interest |-> 0]>>,
      <<[asset_type |-> "EURC", amount |-> 12500000, accrued_interest |-> 0],
        [asset_type |-> "USDC", amount |-> 100000000, accrued_interest |-> 0]>> }

InitGad ==
    /\ now = 0
    /\ \E bs \in GadBorrows :
         position = [NewPosition(0) EXCEPT
                        !.collaterals = <<[asset_type |-> "SOL",
                                           amount |-> 1000000000]>>,
                        !.borrows = bs]
    /\ sol_price_feed = initialize_price_feed(150000000, 0)
    /\ sol_vault = 1000000000
    /\ lending_vault = [a \in Borrowables |->
                            InitialLiquidity[a] - lending_borrow_usd(
                                [borrows |-> SelectSeq(position.borrows,
                                    LAMBDA b : b.asset_type = a)])]
    /\ result = Outcome("borrow", "Ok")
    /\ IdleToken /\ IdleAgent /\ IdleLeverage /\ IdleCredit /\ IdleLp /\ IdleRate
    /\ IdleFlash /\ IdleProtocol

NextGad ==
    \/ \E p \in GadPrices : update_price(p)
    \/ \E s \in Signers, e \in BOOLEAN : configure_gad(s, e)
    \/ crank_gad
    \/ \E i \in SwapInputs, u \in SwapOutputs : crank_gad_with_swap(i, u, SwapMinOut)
    \/ Tick(GadTimes)

SpecGad == InitGad /\ [][NextGad]_vars

----------------------------------------------------------------------------
(* Cranks of positions left alone for days                                 *)

GadDays == { d * SECONDS_PER_DAY : d \in {1, 5, 10, 11} }

NextGadDays ==
    \/ \E p \in GadPrices : update_price(p)
    \/ crank_gad
    \/ Tick(GadDays)

SpecGadDays == InitGad /\ [][NextGadDays]_vars

----------------------------------------------------------------------------
(* Borrowing with a reputation bonus, then the crank, at one price         *)

BonusBorrows == { <<"USDC", 57000000>> }
BonusRepays == {57000000}
BonusTimes == {3600, 7200}

NextBonus ==
    \/ \E a \in DepositAmounts : deposit_sol(a)
    \/ \E i \in BonusBorrows : borrow(i[1], i[2])
    \/ \E a \in BonusRepays : repay("USDC", a)
    \/ crank_gad
    \/ Tick(BonusTimes)

SpecBonus == Init /\ [][NextBonus]_vars

----------------------------------------------------------------------------
(* Instructions between two accruals of a funded position                  *)

\* the time of the accrual the position starts from
FirstAccrual == ACCRUAL_MIN_INTERVAL
BetweenTimes == {5400, 7200, 9000}
BetweenLamports == {500000000}
BetweenRepays == {500}
BetweenBorrows ==
    <<[asset_type |-> "EURC", amount |-> 5000000, accrued_interest |-> 0],
      [asset_type |-> "USDC", amount |-> 40000000, accrued_interest |-> 0]>>

\* deposit_sol of 0.5 SOL and the two borrows at time 0, then
\* accrue_position_interest one hour later
InitBetween ==
    /\ now = FirstAccrual
    /\ position = [NewPosition(0) EXCEPT
                      !.collaterals = <<[asset_type |-> "SOL",
                                         amount |-> 500000000]>>,
                      !.borrows = [i \in 1..Len(BetweenBorrows) |->
                                      Accrued(BetweenBorrows[i], FirstAccrual)],
                      !.last_update = FirstAccrual]
    /\ sol_price_feed = initialize_price_feed(150000000, 0)
    /\ sol_vault = 500000000
    /\ lending_vault = [USDC |-> InitialLiquidity.USDC - 40000000,
                        EURC |-> InitialLiquidity.EURC - 5000000]
    /\ result = [op |-> "accrue_position_interest", err |-> "Ok",
                 skipped |-> FALSE]
    /\ IdleToken /\ IdleAgent /\ IdleLeverage /\ IdleCredit /\ IdleLp /\ IdleRate
    /\ IdleFlash /\ IdleProtocol

NextBetween ==
    \/ \E a \in BetweenLamports : deposit_sol(a)
    \/ \E a \in BetweenLamports : withdraw_sol(a)
    \/ \E a \in BetweenRepays : repay("EURC", a)
    \/ accrue_position_interest
    \/ Tick(BetweenTimes)

SpecBetween == InitBetween /\ [][NextBetween]_vars

----------------------------------------------------------------------------
(* The three instructions that add debt, at one price                      *)

DebtBorrows == {30000000, 100000000}
DebtPayments ==
    { [amount |-> 100000000, payment_id |-> 1, expires_at |-> 200000],
      [amount |-> 30000000, payment_id |-> 2, expires_at |-> 200000] }
DebtRepays == {30000000}
DebtTimes == {3600, 86400}

\* initialize_position, deposit_sol of 1 SOL, configure_agent at time 0
InitDebt ==
    /\ now = 0
    /\ position = [NewPosition(0) EXCEPT
                      !.collaterals = <<[asset_type |-> "SOL",
                                         amount |-> 1000000000]>>]
    /\ sol_price_feed = initialize_price_feed(150000000, 0)
    /\ sol_vault = 1000000000
    /\ lending_vault = InitialLiquidity
    /\ result = Outcome("configure_agent", "Ok")
    /\ agent_config = [daily_borrow_limit |-> 120000000, daily_borrowed |-> 0,
                       period_start |-> 0, auto_repay_enabled |-> TRUE,
                       x402_enabled |-> TRUE]
    /\ agent_token_account = 0
    /\ receipts = {}
    /\ lp_pool = [total_deposits |-> 200000000, total_shares |-> 200000000,
                  total_borrowed |-> 0, interest_earned |-> 0]
    /\ lp_vault = 200000000
    /\ insurance_fund = 0
    /\ IdleToken /\ IdleLeverage /\ IdleCredit /\ IdleRate /\ IdleFlash
    /\ IdleProtocol

NextDebt ==
    \/ \E a \in DebtBorrows : borrow("USDC", a)
    \/ \E a \in DebtBorrows : agent_borrow("owner", a)
    \/ \E r \in DebtPayments : x402_pay("owner", r, TRUE)
    \/ \E a \in DebtRepays : agent_auto_repay("owner", a)
    \/ Tick(DebtTimes)

SpecDebt == InitDebt /\ [][NextDebt]_vars

----------------------------------------------------------------------------
(* Debt service on funded positions                                        *)

NextRepay ==
    \/ \E b \in Borrowables, a \in PartialRepayAmounts : repay(b, a)
    \/ accrue_position_interest
    \/ \E u \in SwapOutputs : crank_gad_with_swap(0, u, SwapMinOut)
    \/ Tick(Times)

SpecRepay == InitGad /\ [][NextRepay]_vars

----------------------------------------------------------------------------
(* Every instruction on funded positions, the custody of the SOL vault     *)
(* drained by a swap route                                                 *)

SettleDeposits == {0, 500000000}
SettleTokenDeposits == {0, 500000000}
SettleBorrows == { <<"USDC", 0>>, <<"USDC", 112500001>> }
SettleRepays == {0, 200000000}
SettleWithdraws == {500000000, 1000000001}
SettlePrices == {100000000}
SettleTimes == {0, 3600, 7200}
SettleSwapIns == {995890000}
SettleSwapOuts == {10000000}

NextSettle ==
    \/ \E a \in SettleDeposits : deposit_sol(a)
    \/ \E a \in SettleTokenDeposits : deposit_token(a)
    \/ \E i \in SettleBorrows : borrow(i[1], i[2])
    \/ \E b \in Borrowables, a \in SettleRepays : repay(b, a)
    \/ \E a \in SettleWithdraws : withdraw_sol(a)
    \/ accrue_position_interest
    \/ \E p \in SettlePrices : update_price(p)
    \/ crank_gad
    \/ \E i \in SettleSwapIns, u \in SettleSwapOuts :
            crank_gad_with_swap(i, u, SwapMinOut)
    \/ Tick(SettleTimes)

SpecSettle == InitGad /\ [][NextSettle]_vars

----------------------------------------------------------------------------
(* SOL custody: deposits, withdrawals and cranks on one position           *)

\* an accrual history: readings of the clock half an hour apart
AccrueTimes == {0, 1800, 3600, 5400, 7200}
AccrueBorrows == { <<"USDC", 100000000>>, <<"EURC", 12500000>> }
AccrueRepays == {500, 200000000}

NextAccrue ==
    \/ \E a \in DepositAmounts : deposit_sol(a)
    \/ \E i \in AccrueBorrows : borrow(i[1], i[2])
    \/ \E b \in Borrowables, a \in AccrueRepays : repay(b, a)
    \/ accrue_position_interest
    \/ Tick(AccrueTimes)

SpecAccrue == Init /\ [][NextAccrue]_vars

CustodyDeposits == {0, 500000000}
CustodyWithdraws == {250000000, 500000000}
CustodyBorrows == { <<"USDC", 56250000>> }

NextCustody ==
    \/ \E a \in CustodyDeposits : deposit_sol(a)
    \/ \E a \in CustodyWithdraws : withdraw_sol(a)
    \/ \E i \in CustodyBorrows : borrow(i[1], i[2])
    \/ \E p \in Prices : update_price(p)
    \/ crank_gad
    \/ Tick(GadTimes)

SpecCustody == Init /\ [][NextCustody]_vars

----------------------------------------------------------------------------
(* Entry lists: every instruction that adds or removes an entry, with all  *)
(* four asset types registered as borrowable                               *)

EntryLamports == {500000000}
EntryBorrow == {37500000}
EntryRepay == {200000000}
EntryPayments ==
    { [amount |-> 37500000, payment_id |-> 1, expires_at |-> 600] }

\* initialize_position and configure_agent by the owner, an LP deposit into the
\* pool the agent borrows from, funded vaults
InitEntries ==
    /\ now = 0
    /\ position = NewPosition(0)
    /\ sol_price_feed = initialize_price_feed(150000000, 0)
    /\ sol_vault = 0
    /\ lending_vault = [a \in AssetTypes |-> 200000000]
    /\ result = Outcome("configure_agent", "Ok")
    /\ agent_config = [daily_borrow_limit |-> 40000000, daily_borrowed |-> 0,
                       period_start |-> 0, auto_repay_enabled |-> TRUE,
                       x402_enabled |-> TRUE]
    /\ agent_token_account = 0
    /\ receipts = {}
    /\ lp_pool = [total_deposits |-> 100000000, total_shares |-> 100000000,
                  total_borrowed |-> 0, interest_earned |-> 0]
    /\ lp_vault = 100000000
    /\ insurance_fund = 0
    /\ leverage_position = <<>>
    /\ usdc_vault = 200000000
    /\ IdleToken /\ IdleCredit /\ IdleRate /\ IdleFlash /\ IdleProtocol

NextEntries ==
    \/ \E a \in EntryLamports : deposit_sol(a)
    \/ \E a \in EntryLamports : deposit_token(a)
    \/ \E t \in AssetTypes \ {"USDC"}, a \in EntryBorrow : borrow(t, a)
    \/ \E a \in EntryRepay : repay("USDC", a)
    \/ \E s \in Signers, a \in EntryBorrow : agent_borrow(s, a)
    \/ \E r \in EntryPayments : x402_pay("owner", r, TRUE)
    \/ \E a \in EntryLamports : open_long("owner", a, 2, 0)

SpecEntries == InitEntries /\ [][NextEntries]_vars

----------------------------------------------------------------------------
(* Who may call what: the signer each Accounts struct asks for             *)

ProtocolAdmin == "admin"
\* the signers each family of instructions is sent by
PositionCallers == {"owner", "stranger"}
ProtocolCallers == {ProtocolAdmin, "stranger"}

\* every account, as an instruction that fails its constraints leaves them
accounts ==
    <<now, position, sol_price_feed, sol_vault, lending_vault, creditVars,
      lpVars, rate_in, tokenVars, agentVars, leverageVars, flashVars, paused>>

Rejected(op, err) == result' = Outcome(op, err) /\ UNCHANGED accounts

\* DepositSol, DepositToken, Borrow, Repay, WithdrawSol: position carries
\* has_one = owner and owner is the Signer
deposit_sol_as(signer, amount) ==
    IF signer = position.owner THEN deposit_sol(amount)
    ELSE Rejected("deposit_sol", "ConstraintHasOne")

deposit_token_as(signer, amount) ==
    IF signer # position.owner THEN Rejected("deposit_token", "ConstraintHasOne")
    ELSE IF collateral_config = <<>>
         THEN Rejected("deposit_token", "AccountNotInitialized")
    ELSE deposit_token(amount)

borrow_as(signer, asset, amount) ==
    IF signer = position.owner THEN borrow(asset, amount)
    ELSE Rejected("borrow", "ConstraintHasOne")

repay_as(signer, asset, amount) ==
    IF signer = position.owner THEN repay(asset, amount)
    ELSE Rejected("repay", "ConstraintHasOne")

withdraw_sol_as_any_signer(signer, amount) == withdraw_sol(amount)

withdraw_sol_as(signer, amount) ==
    IF signer = position.owner THEN withdraw_sol(amount)
    ELSE Rejected("withdraw_sol", "ConstraintHasOne")

\* UpdatePrice, AdminOnly, RegisterCollateral: protocol carries
\* has_one = admin and admin is the Signer
update_price_as(signer, price_usd) ==
    IF signer = ProtocolAdmin THEN update_price(price_usd)
    ELSE Rejected("update_price", "ConstraintHasOne")

set_paused(signer, value) ==
    IF signer = ProtocolAdmin
    THEN /\ paused' = value
         /\ result' = Outcome("set_paused", "Ok")
         /\ UNCHANGED <<now, position, sol_price_feed, sol_vault,
                        lending_vault, creditVars, lpVars, rate_in, tokenVars,
                        agentVars, leverageVars, flashVars>>
    ELSE Rejected("set_paused", "ConstraintHasOne")

\* the Collateral account of the cbBTC mint is created by init
register_collateral(signer, asset_type) ==
    IF signer # ProtocolAdmin
    THEN Rejected("register_collateral", "ConstraintHasOne")
    ELSE IF collateral_config # <<>>
         THEN Rejected("register_collateral", "AccountInUse")
    ELSE /\ collateral_config' = [asset_type |-> asset_type,
                                  is_active |-> TRUE, total_deposited |-> 0]
         /\ result' = Outcome("register_collateral", "Ok")
         /\ UNCHANGED <<now, position, sol_price_feed, sol_vault,
                        lending_vault, creditVars, lpVars, rate_in,
                        token_vault, agentVars, leverageVars, flashVars,
                        paused>>

\* the admin pauses and unpauses while the owner and the cranker act
PauseBorrows == { <<"USDC", 100000000>> }

PauseUserStep ==
    \/ \E a \in DepositAmounts : deposit_sol(a)
    \/ \E i \in PauseBorrows : borrow(i[1], i[2])
    \/ \E a \in WithdrawAmounts : withdraw_sol(a)
    \/ crank_gad

NextPause ==
    \/ \E v \in BOOLEAN : set_paused(ProtocolAdmin, v)
    \/ \E a \in DepositAmounts : deposit_sol(a)
    \/ \E i \in PauseBorrows : borrow(i[1], i[2])
    \/ \E a \in WithdrawAmounts : withdraw_sol(a)
    \/ crank_gad
    \/ \E p \in Prices : update_price(p)
    \/ Tick(Times)

SpecPause == Init /\ [][NextPause]_vars

CallerLamports == {500000000}
CallerBorrow == {70000000}
CallerRepay == {200000000}
CallerPrices == {100000000}
CallerSwaps == {<<4100000, 10000000>>}
CallerPayments == {[amount |-> 70000000, payment_id |-> 1, expires_at |-> 7200]}

\* a position after deposit_sol of 0.5 SOL and borrow of 50 USDC at time 0,
\* its agent configured, the pool funded, cbBTC not yet registered; an
\* hour later the admin has set the price to $100
InitCaller ==
    /\ now = 3600
    /\ position = [NewPosition(0) EXCEPT
                      !.collaterals = <<[asset_type |-> "SOL",
                                         amount |-> 500000000]>>,
                      !.borrows = <<[asset_type |-> "USDC", amount |-> 50000000,
                                     accrued_interest |-> 0]>>]
    /\ sol_price_feed = [initialize_price_feed(150000000, 0) EXCEPT
                            !.price_usd_6dec = 100000000,
                            !.last_update = 3600]
    /\ sol_vault = 500000000
    /\ lending_vault = [InitialLiquidity EXCEPT !.USDC = @ - 50000000]
    /\ result = Outcome("configure_agent", "Ok")
    /\ agent_config = [daily_borrow_limit |-> 70000000, daily_borrowed |-> 0,
                       period_start |-> 0, auto_repay_enabled |-> TRUE,
                       x402_enabled |-> TRUE]
    /\ agent_token_account = 0
    /\ receipts = {}
    /\ lp_pool = [total_deposits |-> 100000000, total_shares |-> 100000000,
                  total_borrowed |-> 0, interest_earned |-> 0]
    /\ lp_vault = 100000000
    /\ insurance_fund = 0
    /\ token_vault = 0
    /\ collateral_config = <<>>
    /\ IdleLeverage /\ IdleCredit /\ IdleRate /\ IdleFlash /\ IdleProtocol

\* the instructions that ask for the position's owner, called by signer
OwnerGated(signer) ==
    \/ \E a \in CallerLamports : deposit_sol_as(signer, a)
    \/ \E a \in CallerLamports : deposit_token_as(signer, a)
    \/ \E a \in CallerBorrow : borrow_as(signer, "USDC", a)
    \/ \E a \in CallerRepay : repay_as(signer, "USDC", a)
    \/ \E a \in CallerLamports : withdraw_sol_as(signer, a)
    \/ configure_gad(signer, TRUE)
    \/ \E a \in CallerBorrow : agent_borrow(signer, a)
    \/ \E r \in CallerPayments : x402_pay(signer, r, TRUE)

\* the instructions that ask for the protocol's admin, called by signer
AdminGated(signer) ==
    \/ \E p \in CallerPrices : update_price_as(signer, p)
    \/ set_paused(signer, FALSE)
    \/ register_collateral(signer, "CbBTC")

\* the instructions any signer may send
Permissionless ==
    \/ crank_gad
    \/ \E w \in CallerSwaps : crank_gad_with_swap(w[1], w[2], SwapMinOut)
    \/ accrue_position_interest

NextCaller ==
    \/ \E c \in PositionCallers : OwnerGated(c)
    \/ \E c \in ProtocolCallers : AdminGated(c)
    \/ Permissionless

SpecCaller == InitCaller /\ [][NextCaller]_vars

----------------------------------------------------------------------------
(* The agent's daily borrow limit: agent_borrow and x402_pay past one day   *)

AgentTimes == {43200, 86399, 86400, 129600}
AgentBorrowAmounts == {0, 15000000, 30000000}
AgentLimits == {10000000, 40000000}
AgentRepayAmounts == {15000000}
AgentPayments ==
    { [amount |-> 20000000, payment_id |-> 1, expires_at |-> 200000],
      [amount |-> 15000000, payment_id |-> 2, expires_at |-> 200000] }

\* initialize_position, deposit_sol of 2 SOL, configure_agent at time 0
InitAgent ==
    /\ now = 0
    /\ position = [NewPosition(0) EXCEPT
                      !.collaterals = <<[asset_type |-> "SOL",
                                         amount |-> 2000000000]>>]
    /\ sol_price_feed = initialize_price_feed(150000000, 0)
    /\ sol_vault = 2000000000
    /\ lending_vault = InitialLiquidity
    /\ result = Outcome("configure_agent", "Ok")
    /\ agent_config = [daily_borrow_limit |-> 40000000, daily_borrowed |-> 0,
                       period_start |-> 0, auto_repay_enabled |-> TRUE,
                       x402_enabled |-> TRUE]
    /\ agent_token_account = 0
    /\ receipts = {}
    /\ lp_pool = [total_deposits |-> 200000000, total_shares |-> 200000000,
                  total_borrowed |-> 0, interest_earned |-> 0]
    /\ lp_vault = 200000000
    /\ insurance_fund = 0
    /\ IdleToken /\ IdleLeverage /\ IdleCredit /\ IdleRate /\ IdleFlash
    /\ IdleProtocol

NextAgent ==
    \/ \E a \in AgentBorrowAmounts : agent_borrow("owner", a)
    \/ \E r \in AgentPayments, b \in BOOLEAN : x402_pay("owner", r, b)
    \/ \E l \in AgentLimits : update_agent_config("owner", l, TRUE, TRUE)
    \/ \E a \in AgentRepayAmounts : agent_auto_repay("owner", a)
    \/ Tick(AgentTimes)

SpecAgent == InitAgent /\ [][NextAgent]_vars

----------------------------------------------------------------------------
(* legasi-credit: single-collateral position with a GAD floor              *)

\* Option<u64> arguments: <<>> is None, <<v>> is Some(v)
CreditStartLtvs == {<<>>, <<3999>>, <<4000>>}
CreditFloors == {<<>>, <<0>>, <<995000000>>, <<999000000>>}
CreditPrices == {0, 150000000, 100000000}

\* initialize_position, deposit_collateral of 1 SOL and borrow of 50% of its
\* value at $150, all at time 0
InitCredit ==
    /\ now = 0
    /\ credit_position =
          [collateral_amount |-> 1000000000, borrowed_amount |-> 75000000,
           last_update |-> 0, last_gad_crank |-> 0,
           gad_config |-> [enabled |-> TRUE,
                           custom_start_ltv_bps |-> GAD_START_LTV_BPS,
                           min_collateral_floor |-> 0],
           total_gad_liquidated |-> 0,
           reputation |-> [gad_events |-> 0]]
    /\ credit_protocol = [sol_price_usd_6dec |-> 150000000, last_price_update |-> 0,
                          total_collateral |-> 1000000000,
                          total_borrowed |-> 75000000]
    /\ collateral_vault = 1000000000
    /\ result = Outcome("credit.borrow", "Ok")
    /\ IdleLedger /\ IdleLp /\ IdleRate

credit_update_price(new_price_usd) ==
    /\ IF new_price_usd > 0
       THEN /\ credit_protocol' = [credit_protocol EXCEPT
                    !.sol_price_usd_6dec = new_price_usd,
                    !.last_price_update = now]
            /\ result' = Outcome("credit.update_price", "Ok")
       ELSE /\ UNCHANGED credit_protocol
            /\ result' = Outcome("credit.update_price", "InvalidAmount")
    /\ UNCHANGED <<now, credit_position, collateral_vault>>
    /\ UNCHANGED <<position, sol_price_feed, sol_vault, lending_vault, lpVars, rate_in,
                   tokenVars, agentVars, leverageVars, flashVars, paused>>

credit_configure_gad(enabled, custom_start_ltv_bps, min_collateral_floor) ==
    /\ LET err == IF custom_start_ltv_bps # <<>>
                     /\ ~(custom_start_ltv_bps[1] >= 4000
                          /\ custom_start_ltv_bps[1] <= 7000)
                  THEN "InvalidGadConfig" ELSE "Ok"
       IN /\ result' = Outcome("credit.configure_gad", err)
          /\ IF err = "Ok"
             THEN credit_position' = [credit_position EXCEPT
                    !.gad_config = [enabled |-> enabled,
                        custom_start_ltv_bps |->
                            IF custom_start_ltv_bps # <<>>
                            THEN custom_start_ltv_bps[1]
                            ELSE credit_position.gad_config.custom_start_ltv_bps,
                        min_collateral_floor |->
                            IF min_collateral_floor # <<>>
                            THEN min_collateral_floor[1]
                            ELSE credit_position.gad_config.min_collateral_floor]]
             ELSE UNCHANGED credit_position
    /\ UNCHANGED <<now, credit_protocol, collateral_vault>>
    /\ UNCHANGED <<position, sol_price_feed, sol_vault, lending_vault, lpVars, rate_in,
                   tokenVars, agentVars, leverageVars, flashVars, paused>>

\* the quantities legasi-credit crank_gad computes, in the order of the code;
\* x / 10000 / SECONDS_PER_DAY on integers is x / (10000 * SECONDS_PER_DAY)
CreditCrankCalc(pos, protocol, t) ==
    LET collateral_value == MulDiv(pos.collateral_amount,
                                   protocol.sol_price_usd_6dec, LAMPORTS_PER_SOL)
        current_ltv == IF collateral_value = 0 THEN 0
                       ELSE MulDiv(pos.borrowed_amount, 10000, collateral_value)
        start_ltv == pos.gad_config.custom_start_ltv_bps
        elapsed == t - pos.last_gad_crank
        gad_rate == FromU64(credit_get_gad_rate_bps(ToU64(current_ltv),
                                                    ToU64(start_ltv)))
        liquidate_amount == MulDiv(pos.collateral_amount, gad_rate * elapsed,
                                   10000 * SECONDS_PER_DAY)
        max_liq == SatSub(pos.collateral_amount,
                          pos.gad_config.min_collateral_floor)
        actual_liq == Min(liquidate_amount, max_liq)
        usdc_value == MulDiv(actual_liq, protocol.sol_price_usd_6dec,
                             LAMPORTS_PER_SOL)
        crank_reward == actual_liq \div 200
    IN [collateral_value |-> collateral_value, current_ltv |-> current_ltv,
        elapsed |-> elapsed, gad_rate |-> gad_rate,
        actual_liq |-> actual_liq,
        debt_reduction |-> Min(usdc_value, pos.borrowed_amount),
        crank_reward |-> crank_reward,
        total_deduct |-> actual_liq + crank_reward]

credit_crank_gad_err(pos, protocol, t, vault) ==
    IF ~pos.gad_config.enabled THEN "GadDisabled"
    ELSE IF ~(pos.borrowed_amount > 0) THEN "NoDebtToDeleverage"
    ELSE LET c == CreditCrankCalc(pos, protocol, t)
         IN IF ~(c.collateral_value > 0) THEN "NoCollateral"
            ELSE IF ~(c.current_ltv > pos.gad_config.custom_start_ltv_bps)
                 THEN "LtvBelowGadThreshold"
            ELSE IF ~(c.elapsed >= 3600) THEN "CrankTooSoon"
            ELSE IF ~(c.actual_liq > 0) THEN "NothingToLiquidate"
            ELSE IF vault < c.total_deduct THEN "TransferFailed"
            ELSE "Ok"

credit_crank_gad ==
    /\ LET err == credit_crank_gad_err(credit_position, credit_protocol, now,
                                       collateral_vault)
           c == CreditCrankCalc(credit_position, credit_protocol, now)
       IN IF err = "Ok"
          THEN /\ result' = [op |-> "credit.crank_gad", err |-> err,
                             collateral_liquidated |-> c.actual_liq,
                             debt_reduced |-> c.debt_reduction,
                             ltv_bps |-> c.current_ltv,
                             gad_rate_bps |-> c.gad_rate,
                             crank_reward |-> c.crank_reward]
               /\ collateral_vault' = collateral_vault - c.total_deduct
               /\ credit_position' = [credit_position EXCEPT
                     !.collateral_amount = SatSub(@, c.total_deduct),
                     !.borrowed_amount = SatSub(@, c.debt_reduction),
                     !.last_gad_crank = now,
                     !.total_gad_liquidated = @ + c.actual_liq,
                     !.last_update = now,
                     !.reputation.gad_events = @ + 1]
               /\ credit_protocol' = [credit_protocol EXCEPT
                     !.total_collateral = SatSub(@, c.total_deduct),
                     !.total_borrowed = SatSub(@, c.debt_reduction)]
          ELSE /\ result' = Outcome("credit.crank_gad", err)
               /\ UNCHANGED <<collateral_vault, credit_position, credit_protocol>>
    /\ UNCHANGED now
    /\ UNCHANGED <<position, sol_price_feed, sol_vault, lending_vault, lpVars, rate_in,
                   tokenVars, agentVars, leverageVars, flashVars, paused>>

creditLedgerFrame ==
    UNCHANGED <<now, position, sol_price_feed, sol_vault, lending_vault, lpVars,
                rate_in, tokenVars, agentVars, leverageVars, flashVars, paused>>

JITO_YIELD_BPS == 700
STAKE_SECONDS_PER_YEAR == 31536000

\* x / 10000 / seconds_per_year on integers is x / seconds_per_year / 10000
calculate_staking_yield(staked_amount, elapsed_seconds) ==
    IF staked_amount = 0 \/ elapsed_seconds <= 0 THEN 0
    ELSE MulDiv(staked_amount, JITO_YIELD_BPS * elapsed_seconds,
                STAKE_SECONDS_PER_YEAR) \div 10000

\* the yield pending on the staked amount is added before a stake or a claim
YieldAccrued(pos, t) ==
    IF pos.staked_amount > 0 /\ pos.last_stake_update > 0
    THEN pos.accumulated_yield
         + calculate_staking_yield(pos.staked_amount,
                                   SatSub(t, pos.last_stake_update))
    ELSE pos.accumulated_yield

credit_deposit_collateral(amount) ==
    /\ amount <= MaxLamports - credit_position.collateral_amount
    /\ amount <= MaxLamports - credit_protocol.total_collateral
    /\ LET err == IF amount = 0 THEN "InvalidAmount" ELSE "Ok"
       IN /\ result' = [op |-> "credit.deposit_collateral", err |-> err,
                         amount |-> amount]
          /\ IF err = "Ok"
             THEN /\ collateral_vault' = collateral_vault + amount
                  /\ credit_position' = [credit_position EXCEPT
                        !.collateral_amount = @ + amount,
                        !.last_update = now]
                  /\ credit_protocol' = [credit_protocol EXCEPT
                        !.total_collateral = @ + amount]
             ELSE UNCHANGED <<collateral_vault, credit_position, credit_protocol>>
    /\ creditLedgerFrame

credit_deposit_and_stake(amount) ==
    /\ amount <= MaxLamports - credit_position.collateral_amount
    /\ amount <= MaxLamports - credit_protocol.total_collateral
    /\ LET err == IF amount = 0 THEN "InvalidAmount" ELSE "Ok"
       IN /\ result' = [op |-> "credit.deposit_and_stake", err |-> err,
                         amount |-> amount]
          /\ IF err = "Ok"
             THEN /\ collateral_vault' = collateral_vault + amount
                  /\ credit_position' = [credit_position EXCEPT
                        !.accumulated_yield = YieldAccrued(credit_position, now),
                        !.collateral_amount = @ + amount,
                        !.staked_amount = @ + amount,
                        !.last_stake_update = now,
                        !.last_update = now]
                  /\ credit_protocol' = [credit_protocol EXCEPT
                        !.total_collateral = @ + amount]
             ELSE UNCHANGED <<collateral_vault, credit_position, credit_protocol>>
    /\ creditLedgerFrame

\* the yield is paid out of the position's collateral vault
credit_claim_staking_yield ==
    /\ LET claimable == YieldAccrued(credit_position, now)
           err == IF ~(claimable > 0) THEN "NoYieldToClaim"
                  ELSE IF collateral_vault < claimable THEN "TransferFailed"
                  ELSE "Ok"
       IN /\ result' = [op |-> "credit.claim_staking_yield", err |-> err,
                         amount |-> IF err = "Ok" THEN claimable ELSE 0]
          /\ IF err = "Ok"
             THEN /\ collateral_vault' = collateral_vault - claimable
                  /\ credit_position' = [credit_position EXCEPT
                        !.accumulated_yield = 0,
                        !.last_stake_update = now,
                        !.last_update = now]
             ELSE UNCHANGED <<collateral_vault, credit_position>>
    /\ UNCHANGED credit_protocol
    /\ creditLedgerFrame

credit_withdraw_collateral_err(amount) ==
    LET remaining == credit_position.collateral_amount - amount
        remaining_value == MulDiv(remaining, credit_protocol.sol_price_usd_6dec,
                                  LAMPORTS_PER_SOL)
        max_borrow == MulDiv(remaining_value, MAX_LTV_BPS, 10000)
    IN IF amount = 0 THEN "InvalidAmount"
       ELSE IF ~(amount <= credit_position.collateral_amount)
            THEN "InsufficientCollateral"
       ELSE IF credit_position.borrowed_amount > 0
               /\ ~(credit_position.borrowed_amount <= max_borrow)
            THEN "ExceedsLTV"
       ELSE IF ~(remaining >= credit_position.gad_config.min_collateral_floor)
            THEN "BelowCollateralFloor"
       ELSE IF collateral_vault < amount THEN "TransferFailed"
       ELSE "Ok"

\* WithdrawCollateral declares the protocol account without mut: the
\* handler's write to protocol.total_collateral is not stored
credit_withdraw_collateral(amount) ==
    /\ LET err == credit_withdraw_collateral_err(amount)
       IN /\ result' = [op |-> "credit.withdraw_collateral", err |-> err,
                         amount |-> amount]
          /\ IF err = "Ok"
             THEN /\ collateral_vault' = collateral_vault - amount
                  /\ credit_position' = [credit_position EXCEPT
                        !.collateral_amount = @ - amount,
                        !.last_update = now]
             ELSE UNCHANGED <<collateral_vault, credit_position>>
    /\ UNCHANGED credit_protocol
    /\ creditLedgerFrame

CreditLamports == {0, 250000000, 500000000}
CreditLedgerPrices == {150000000, 100000000}
CreditLedgerTimes == {7200, 10800}

\* initialize_protocol at $150, initialize_position at time 3600,
\* deposit_collateral of 0.5 SOL and borrow of 37.5 USDC
InitCreditLedger ==
    /\ now = 3600
    /\ credit_position =
          [collateral_amount |-> 500000000, staked_amount |-> 0,
           last_stake_update |-> 3600, accumulated_yield |-> 0,
           borrowed_amount |-> 37500000,
           last_update |-> 3600, last_gad_crank |-> 3600,
           gad_config |-> [enabled |-> TRUE,
                           custom_start_ltv_bps |-> GAD_START_LTV_BPS,
                           min_collateral_floor |-> 0],
           total_gad_liquidated |-> 0,
           reputation |-> [gad_events |-> 0]]
    /\ credit_protocol = [sol_price_usd_6dec |-> 150000000,
                          last_price_update |-> 3600,
                          total_collateral |-> 500000000,
                          total_borrowed |-> 37500000]
    /\ collateral_vault = 500000000
    /\ result = Outcome("credit.borrow", "Ok")
    /\ IdleLedger /\ IdleLp /\ IdleRate

NextCreditLedger ==
    \/ \E a \in CreditLamports : credit_deposit_collateral(a)
    \/ \E a \in CreditLamports : credit_deposit_and_stake(a)
    \/ credit_claim_staking_yield
    \/ \E a \in CreditLamports : credit_withdraw_collateral(a)
    \/ \E p \in CreditLedgerPrices : credit_update_price(p)
    \/ credit_crank_gad
    \/ Tick(CreditLedgerTimes)

SpecCreditLedger == InitCreditLedger /\ [][NextCreditLedger]_vars

NextCredit ==
    \/ \E p \in CreditPrices : credit_update_price(p)
    \/ \E e \in BOOLEAN, l \in CreditStartLtvs, f \in CreditFloors :
            credit_configure_gad(e, l, f)
    \/ credit_crank_gad
    \/ Tick(GadTimes)

SpecCredit == InitCredit /\ [][NextCredit]_vars

----------------------------------------------------------------------------
(* legasi-gad under fair cranking: the price is fixed, the owner is idle   *)
(* and a cranker calls crank_gad each time the interval has elapsed        *)

FairPrices == {149900000, 125000000}

InitGadFair ==
    /\ now = 0
    /\ \E p \in FairPrices :
          sol_price_feed = initialize_price_feed(p, 0)
    /\ position = [NewPosition(0) EXCEPT
                     !.collaterals = <<[asset_type |-> "SOL", amount |-> 1000000000]>>,
                     !.borrows = <<[asset_type |-> "USDC", amount |-> 112500000,
                                    accrued_interest |-> 0]>>]
    /\ sol_vault = 1000000000
    /\ lending_vault = [InitialLiquidity EXCEPT !["USDC"] = @ - 112500000]
    /\ result = Outcome("update_price", "Ok")
    /\ IdleToken /\ IdleAgent /\ IdleLeverage /\ IdleCredit /\ IdleLp /\ IdleRate
    /\ IdleFlash /\ IdleProtocol

\* the clock reaches the next moment at which the interval has elapsed
HourPasses ==
    /\ now - position.last_gad_crank < MIN_GAD_CRANK_INTERVAL
    /\ now' = now + MIN_GAD_CRANK_INTERVAL
    /\ UNCHANGED <<position, sol_price_feed, sol_vault, lending_vault, result>>
    /\ UNCHANGED offLedger

NextGadFair == crank_gad \/ HourPasses

\* crank_gad changes the state: it succeeds, or it records a rejection that
\* is not the one already recorded. This is ENABLED <<crank_gad>>_vars.
CrankWouldAct ==
    LET err == crank_gad_err(position, sol_price_feed, now, sol_vault)
    IN err = "Ok" \/ result # Outcome("crank_gad", err)

\* weak fairness of the clock and of the cranker; the cranker's is written
\* out with CrankWouldAct in the place of ENABLED <<crank_gad>>_vars
SpecGadFair ==
    InitGadFair /\ [][NextGadFair]_vars
        /\ WF_vars(HourPasses)
        /\ ([]<>(~CrankWouldAct) \/ []<><<crank_gad>>_vars)

----------------------------------------------------------------------------
(* legasi-lp: one pool, its vault and the protocol's insurance fund        *)

MaxPoolTokens == 24
LpDepositAmounts == {0, 1, 4, 7}
LpShareAmounts == {0, 1, 3, 5}
LpInterestAmounts == {0, 5, 21, 40}

InitLp ==
    /\ now = 0
    /\ IdleLp
    /\ result = Outcome("lp.initialize_pool", "Ok")
    /\ IdleLedger /\ IdleCredit /\ IdleRate

lpFrame == UNCHANGED <<lendingVars, creditVars, rate_in>>

shares_to_mint(amount, pool) ==
    IF pool.total_shares = 0 THEN amount
    ELSE (amount * pool.total_shares) \div pool.total_deposits

lp_deposit_err(amount, pool) ==
    IF ~(amount > 0) THEN "InvalidAmount"
    ELSE IF pool.total_shares # 0 /\ pool.total_deposits = 0 THEN "MathOverflow"
    ELSE IF ~(shares_to_mint(amount, pool) > 0) THEN "InvalidAmount"
    ELSE "Ok"

deposit(amount) ==
    /\ lp_pool.total_deposits + amount <= MaxPoolTokens
    /\ LET err == lp_deposit_err(amount, lp_pool)
       IN IF err = "Ok"
          THEN /\ result' = [op |-> "lp.deposit", err |-> err, amount |-> amount,
                             shares_minted |-> shares_to_mint(amount, lp_pool)]
               /\ lp_vault' = lp_vault + amount
               /\ lp_pool' = [lp_pool EXCEPT
                     !.total_deposits = @ + amount,
                     !.total_shares = @ + shares_to_mint(amount, lp_pool)]
          ELSE /\ result' = Outcome("lp.deposit", err)
               /\ UNCHANGED <<lp_pool, lp_vault>>
    /\ UNCHANGED insurance_fund
    /\ lpFrame

tokens_to_return_rounding_up(shares_amount, pool) ==
    (shares_amount * pool.total_deposits + pool.total_shares - 1)
        \div pool.total_shares

tokens_to_return(shares_amount, pool) ==
    (shares_amount * pool.total_deposits) \div pool.total_shares

\* the burn fails when the withdrawer holds fewer LP tokens than shares_amount;
\* no holder has more than the supply, which is total_shares
lp_withdraw_err(shares_amount, pool, vault_amount) ==
    IF ~(shares_amount > 0) THEN "InvalidAmount"
    ELSE IF ~(pool.total_shares > 0) THEN "NoLpShares"
    ELSE IF ~(tokens_to_return(shares_amount, pool) > 0) THEN "InvalidAmount"
    ELSE IF ~(vault_amount >= tokens_to_return(shares_amount, pool))
         THEN "InsufficientLiquidity"
    ELSE IF shares_amount > pool.total_shares THEN "InsufficientFunds"
    ELSE "Ok"

withdraw(shares_amount) ==
    /\ LET err == lp_withdraw_err(shares_amount, lp_pool, lp_vault)
       IN IF err = "Ok"
          THEN /\ result' = [op |-> "lp.withdraw", err |-> err,
                             shares_burned |-> shares_amount,
                             amount_received |->
                                 tokens_to_return(shares_amount, lp_pool)]
               /\ lp_vault' = lp_vault - tokens_to_return(shares_amount, lp_pool)
               /\ lp_pool' = [lp_pool EXCEPT
                     !.total_deposits =
                        SatSub(@, tokens_to_return(shares_amount, lp_pool)),
                     !.total_shares = SatSub(@, shares_amount)]
          ELSE /\ result' = Outcome("lp.withdraw", err)
               /\ UNCHANGED <<lp_pool, lp_vault>>
    /\ UNCHANGED insurance_fund
    /\ lpFrame

accrue_interest(interest_amount) ==
    /\ lp_pool.interest_earned + interest_amount <= MaxPoolTokens
    /\ lp_pool.total_deposits + interest_amount <= MaxPoolTokens
    /\ IF interest_amount > 0
       THEN LET insurance_fee ==
                    (interest_amount * INSURANCE_FEE_BPS) \div BPS_DENOMINATOR
                lp_interest == SatSub(interest_amount, insurance_fee)
            IN /\ lp_pool' = [lp_pool EXCEPT
                     !.total_deposits = @ + lp_interest,
                     !.interest_earned = @ + lp_interest]
               /\ insurance_fund' = insurance_fund + insurance_fee
               /\ result' = [op |-> "lp.accrue_interest", err |-> "Ok",
                             amount |-> interest_amount,
                             lp_interest |-> lp_interest,
                             insurance_fee |-> insurance_fee]
       ELSE /\ result' = Outcome("lp.accrue_interest", "InvalidAmount")
            /\ UNCHANGED <<lp_pool, insurance_fund>>
    /\ UNCHANGED lp_vault
    /\ lpFrame

NextLp ==
    \/ \E a \in LpDepositAmounts : deposit(a)
    \/ \E k \in LpShareAmounts : withdraw(k)
    \/ \E i \in LpInterestAmounts : accrue_interest(i)

SpecLp == InitLp /\ [][NextLp]_vars

\* The pool together with the one lending instruction that pays tokens into
\* its vault: agent_auto_repay transfers the whole amount, whatever the debt.
\* configure_agent has been called with auto-repay enabled and the agent's
\* token account is funded.
AgentFunds == 30
LpRepayAmounts == {0, 20}

InitLpRepay ==
    /\ now = 0
    /\ IdleLp
    /\ position = NewPosition(0)
    /\ sol_price_feed = initialize_price_feed(150000000, 0)
    /\ sol_vault = 0
    /\ lending_vault = InitialLiquidity
    /\ IdleToken /\ IdleLeverage /\ IdleCredit /\ IdleRate /\ IdleFlash /\ IdleProtocol
    /\ agent_config = [daily_borrow_limit |-> 0, daily_borrowed |-> 0,
                       period_start |-> 0, auto_repay_enabled |-> TRUE,
                       x402_enabled |-> FALSE]
    /\ agent_token_account = AgentFunds
    /\ receipts = {}
    /\ result = Outcome("configure_agent", "Ok")

NextLpRepay ==
    \/ \E a \in LpDepositAmounts : deposit(a)
    \/ \E k \in LpShareAmounts : withdraw(k)
    \/ \E i \in LpInterestAmounts : accrue_interest(i)
    \/ \E a \in LpRepayAmounts : agent_auto_repay("owner", a)

SpecLpRepay == InitLpRepay /\ [][NextLpRepay]_vars

----------------------------------------------------------------------------
(* legasi-flash: flash loans out of the pool's vault                       *)

FlashAmounts == {0, 1000, 400000}
FlashPoolTokens == 1000000
BorrowerTokens == 250
MaxFeesEarned == 200       \* cap on lp_pool.interest_earned

\* a funded pool (one LP deposit of FlashPoolTokens) and a borrower holding
\* BorrowerTokens of the pool's token
InitFlash ==
    /\ now = 0
    /\ position = NewPosition(0)
    /\ sol_price_feed = initialize_price_feed(150000000, 0)
    /\ sol_vault = 0
    /\ lending_vault = InitialLiquidity
    /\ IdleToken /\ IdleAgent /\ IdleLeverage /\ IdleCredit /\ IdleRate
    /\ IdleProtocol
    /\ lp_pool = [total_deposits |-> FlashPoolTokens,
                  total_shares |-> FlashPoolTokens,
                  total_borrowed |-> 0, interest_earned |-> 0]
    /\ lp_vault = FlashPoolTokens
    /\ insurance_fund = 0
    /\ slot = 0
    /\ flash_state = [s \in Slots |-> <<>>]
    /\ user_token_account = BorrowerTokens
    /\ result = Outcome("lp.deposit", "Ok")

flashFrame ==
    UNCHANGED <<now, position, sol_price_feed, sol_vault, lending_vault,
                tokenVars, agentVars, leverageVars, creditVars, rate_in, slot, paused>>

flash_fee(amount) ==
    Max((amount * FLASH_LOAN_FEE_BPS) \div BPS_DENOMINATOR, MIN_FLASH_LOAN_FEE)

\* flash_state is created by init under the seeds (borrower, slot argument):
\* an existing account for that slot makes the instruction fail before the
\* handler runs
flash_borrow_err(amount, slot_arg) ==
    IF flash_state[slot_arg] # <<>> THEN "AccountInUse"
    ELSE IF ~(amount > 0) THEN "InvalidAmount"
    ELSE IF ~(slot_arg = slot) THEN "InvalidSlot"
    ELSE IF ~(lp_vault >= amount) THEN "InsufficientLiquidity"
    ELSE "Ok"

flash_borrow(amount, slot_arg) ==
    /\ LET err == flash_borrow_err(amount, slot_arg)
       IN IF err = "Ok"
          THEN /\ result' = [op |-> "flash_borrow", err |-> err,
                             amount |-> amount, fee |-> flash_fee(amount),
                             initiated_slot |-> slot]
               /\ flash_state' = [flash_state EXCEPT ![slot_arg] =
                     [amount |-> amount, fee |-> flash_fee(amount),
                      initiated_slot |-> slot, repaid |-> FALSE]]
               /\ lp_vault' = lp_vault - amount
               /\ user_token_account' = user_token_account + amount
          ELSE /\ result' = Outcome("flash_borrow", err)
               /\ UNCHANGED <<flash_state, lp_vault, user_token_account>>
    /\ UNCHANGED <<lp_pool, insurance_fund>>
    /\ flashFrame

\* a repayment that does not look at the repaid flag
flash_repay_err_repeatable(s) ==
    IF flash_state[s] = <<>> THEN "AccountNotInitialized"
    ELSE IF ~(flash_state[s].initiated_slot = slot) THEN "FlashLoanNotRepaid"
    ELSE IF user_token_account < flash_state[s].amount + flash_state[s].fee
         THEN "InsufficientFunds"
    ELSE "Ok"

flash_repay_err(s) ==
    IF flash_state[s] = <<>> THEN "AccountNotInitialized"
    ELSE IF ~(flash_state[s].initiated_slot = slot) THEN "FlashLoanNotRepaid"
    ELSE IF flash_state[s].repaid THEN "FlashLoanNotRepaid"
    ELSE IF user_token_account < flash_state[s].amount + flash_state[s].fee
         THEN "InsufficientFunds"
    ELSE "Ok"

\* s names the FlashLoanState account passed in. The handler assigns
\* protocol.insurance_fund, but FlashRepay declares the protocol account
\* without mut: whether the assignment reaches the account is left open
\* (written).
flash_repay(s) ==
    /\ flash_repay_err(s) = "Ok" =>
          lp_pool.interest_earned + flash_state[s].fee <= MaxFeesEarned
    /\ LET err == flash_repay_err(s)
       IN IF err = "Ok"
          THEN LET fee == flash_state[s].fee
                   total_repayment == flash_state[s].amount + fee
                   insurance_fee ==
                       (fee * INSURANCE_FEE_BPS) \div BPS_DENOMINATOR
                   lp_fee == SatSub(fee, insurance_fee)
               IN /\ result' = [op |-> "flash_repay", err |-> err,
                                amount |-> flash_state[s].amount,
                                fee |-> fee, initiated_slot |-> s]
                  /\ user_token_account' = user_token_account - total_repayment
                  /\ lp_vault' = lp_vault + total_repayment
                  /\ flash_state' = [flash_state EXCEPT ![s].repaid = TRUE]
                  /\ lp_pool' = [lp_pool EXCEPT
                        !.total_deposits = @ + lp_fee,
                        !.interest_earned = @ + lp_fee]
                  /\ \E written \in BOOLEAN :
                        insurance_fund' = IF written
                                          THEN insurance_fund + insurance_fee
                                          ELSE insurance_fund
          ELSE /\ result' = Outcome("flash_repay", err)
               /\ UNCHANGED <<flash_state, lp_vault, user_token_account,
                              lp_pool, insurance_fund>>
    /\ flashFrame

\* the close constraint removes the account once the handler has accepted
close_flash_state(s) ==
    /\ LET err == IF flash_state[s] = <<>> THEN "AccountNotInitialized"
                  ELSE IF ~flash_state[s].repaid THEN "FlashLoanNotRepaid"
                  ELSE "Ok"
       IN /\ result' = Outcome("close_flash_state", err)
          /\ flash_state' = IF err = "Ok"
                            THEN [flash_state EXCEPT ![s] = <<>>]
                            ELSE flash_state
    /\ UNCHANGED <<lp_vault, user_token_account, lp_pool, insurance_fund>>
    /\ flashFrame

\* the cluster moves to the next slot
NextSlot ==
    /\ slot < MaxSlot
    /\ slot' = slot + 1
    /\ UNCHANGED <<now, position, sol_price_feed, sol_vault, lending_vault,
                   tokenVars, agentVars, leverageVars, creditVars, rate_in,
                   lpVars, flash_state, user_token_account, result, paused>>

NextFlash ==
    \/ \E a \in FlashAmounts, s \in Slots : flash_borrow(a, s)
    \/ \E s \in Slots : flash_repay(s)
    \/ \E s \in Slots : close_flash_state(s)
    \/ NextSlot

SpecFlash == InitFlash /\ [][NextFlash]_vars

\* the life of a FlashLoanState account: loans of one size
FlashStateAmounts == {0, 1000}

NextFlashState ==
    \/ \E a \in FlashStateAmounts, s \in Slots : flash_borrow(a, s)
    \/ \E s \in Slots : flash_repay(s)
    \/ \E s \in Slots : close_flash_state(s)
    \/ NextSlot

SpecFlashState == InitFlash /\ [][NextFlashState]_vars

----------------------------------------------------------------------------
(* get_gad_rate_bps as a function of two u64 arguments                     *)

RateInputs ==
    { ToU64(0), ToU64(5000), ToU64(7500), ToU64(7501), ToU64(7509),
      ToU64(7510), ToU64(7816), ToU64(7817), ToU64(9000),
      U64(0, 10, 0, 0), U64(0, 10, 0, 7500), U64(65535, 65535, 65535, 65535) }

InitRate ==
    /\ now = 0
    /\ rate_in \in RateInputs \X RateInputs
    /\ result = Outcome("none", "Ok")
    /\ IdleLedger /\ IdleCredit /\ IdleLp

eval_rate ==
    /\ result' = [op |-> "get_gad_rate_bps", err |-> "Ok",
                  gad |-> get_gad_rate_bps(rate_in[1], rate_in[2]),
                  credit |-> credit_get_gad_rate_bps(rate_in[1], rate_in[2])]
    /\ UNCHANGED <<rate_in, lendingVars, creditVars, lpVars>>

\* pool totals the borrow-rate curve is evaluated at
PoolDepositInputs ==
    { ToU64(0), ToU64(1), ToU64(2), ToU64(1000), ToU64(10000) }
PoolBorrowedInputs ==
    { ToU64(0), ToU64(1), ToU64(500), ToU64(799), ToU64(800), ToU64(801),
      ToU64(950), ToU64(1000), ToU64(5000), ToU64(8000), ToU64(9500),
      U64(1, 48996, 30226, 62314), U64(1, 48996, 30226, 62315),
      U64(6, 36280, 47815, 4299), U64(6, 36280, 47815, 4300),
      U64(65535, 65535, 65535, 65535) }

InitBorrowRate ==
    /\ now = 0
    /\ rate_in \in PoolDepositInputs \X PoolBorrowedInputs
    /\ result = Outcome("none", "Ok")
    /\ IdleLedger /\ IdleCredit /\ IdleLp

eval_borrow_rate ==
    /\ result' = [op |-> "calculate_borrow_rate", err |-> "Ok",
                  rate |-> calculate_borrow_rate(rate_in[1], rate_in[2])]
    /\ UNCHANGED <<rate_in, lendingVars, creditVars, lpVars>>

NextBorrowRate == eval_borrow_rate

SpecBorrowRate == InitBorrowRate /\ [][NextBorrowRate]_vars

\* quotes handed to sync_pyth_price: publish times around the clock
\* readings and far from them, confidences around 5% of the price and past
\* 2^64 / 10000
OracleTimes == {0, 100}
QuotePrices == { ToI64(-1), ToI64(1), ToI64(1000000) }
QuoteConfs ==
    { ToU64(10000), ToU64(50000), ToU64(50001),
      U64(39, 21076, 24746, 25795) }
QuoteTimes ==
    { ToI64(39), ToI64(40), ToI64(-1), U64(32768, 0, 0, 0) }
PythQuotes ==
    {<<>>} \cup [price : QuotePrices, conf : QuoteConfs, expo : {-8},
                 publish_time : QuoteTimes]

NextOracle ==
    \/ \E q \in PythQuotes : sync_pyth_price(q)
    \/ \E p \in Prices : update_price(p)
    \/ Tick(OracleTimes)

SpecOracle == Init /\ [][NextOracle]_vars

\* quotes to_usd_6dec is evaluated at
ConversionPrices ==
    { ToI64(-1), ToI64(0), ToI64(1), ToI64(2), ToI64(99), ToI64(100),
      ToI64(1234567), U64(0, 3, 32273, 54784),
      U64(32767, 65535, 65535, 65535) }
ConversionExpos == {-12, -9, -8, -7, -6, -5, -4, 0, 4, 14}

InitConversion ==
    /\ now = 0
    /\ rate_in \in ConversionPrices \X ConversionExpos
    /\ result = Outcome("none", "Ok")
    /\ IdleLedger /\ IdleCredit /\ IdleLp

eval_to_usd_6dec ==
    /\ result' = [op |-> "to_usd_6dec", err |-> "Ok",
                  usd |-> to_usd_6dec(rate_in[1], rate_in[2])]
    /\ UNCHANGED <<rate_in, lendingVars, creditVars, lpVars>>

NextConversion == eval_to_usd_6dec

SpecConversion == InitConversion /\ [][NextConversion]_vars

\* pool totals the supply rate is evaluated at, borrowed up to and past the
\* deposits
SupplyDepositInputs ==
    { ToU64(0), ToU64(1), ToU64(3), ToU64(7), ToU64(1000), ToU64(10000),
      ToU64(8000000) }
SupplyBorrowedInputs ==
    { ToU64(0), ToU64(1), ToU64(2), ToU64(3), ToU64(5), ToU64(7), ToU64(500),
      ToU64(800), ToU64(801), ToU64(950), ToU64(1000), ToU64(8000),
      ToU64(9999), ToU64(10000), ToU64(6400000), ToU64(8000000),
      U64(6, 36280, 47815, 4300) }

InitSupplyRate ==
    /\ now = 0
    /\ rate_in \in SupplyDepositInputs \X SupplyBorrowedInputs
    /\ result = Outcome("none", "Ok")
    /\ IdleLedger /\ IdleCredit /\ IdleLp

eval_supply_rate ==
    /\ result' = [op |-> "calculate_supply_rate", err |-> "Ok",
                  supply |-> calculate_supply_rate(rate_in[1], rate_in[2]),
                  borrow |-> calculate_borrow_rate(rate_in[1], rate_in[2])]
    /\ UNCHANGED <<rate_in, lendingVars, creditVars, lpVars>>

NextSupplyRate == eval_supply_rate

SpecSupplyRate == InitSupplyRate /\ [][NextSupplyRate]_vars

\* u32 values the reputation counters are drawn from
RepaymentInputs ==
    { ToU32(0), ToU32(1), ToU32(2), ToU32(4), ToU32(8), ToU32(10), ToU32(11),
      ToU32(85899345), ToU32(85899346), <<255, 255, 255, 255>> }
AgeInputs ==
    { ToU32(0), ToU32(29), ToU32(30), ToU32(299), ToU32(300),
      <<255, 255, 255, 255>> }
GadEventInputs ==
    { ToU32(0), ToU32(1), ToU32(5), ToU32(6), ToU32(42949672),
      ToU32(42949673), <<255, 255, 255, 255>> }

InitScore ==
    /\ now = 0
    /\ rate_in \in RepaymentInputs \X AgeInputs \X GadEventInputs
    /\ result = Outcome("none", "Ok")
    /\ IdleLedger /\ IdleCredit /\ IdleLp

\* get_ltv_bonus_bps of a Reputation with the counters of rate_in, in either
\* build of the program
eval_score ==
    /\ \E overflow_checks \in BOOLEAN :
         LET s == get_score_u32(rate_in[1], rate_in[2], rate_in[3],
                                overflow_checks)
         IN result' = IF s.panic
                      THEN [op |-> "get_score", err |-> "Panic"]
                      ELSE [op |-> "get_score", err |-> "Ok",
                            score |-> s.score,
                            bonus |-> ltv_bonus_of_score(s.score)]
    /\ UNCHANGED <<rate_in, lendingVars, creditVars, lpVars>>

\* get_ltv_bonus_bps of one Reputation before and after the two updates the
\* instructions make to it: successful_repayments.saturating_add(1) of a
\* repayment and gad_events.saturating_add(1) of a crank
eval_bonus ==
    /\ \E overflow_checks \in BOOLEAN :
         LET before == get_score_u32(rate_in[1], rate_in[2], rate_in[3],
                                     overflow_checks)
             repaid == get_score_u32(SatIncU32(rate_in[1]), rate_in[2],
                                     rate_in[3], overflow_checks)
             cranked == get_score_u32(rate_in[1], rate_in[2],
                                      SatIncU32(rate_in[3]), overflow_checks)
             Bonus(s) == [panic |-> s.panic,
                          bps |-> IF s.panic THEN 0
                                  ELSE ltv_bonus_of_score(s.score)]
         IN result' = [op |-> "get_ltv_bonus_bps", err |-> "Ok",
                       before |-> Bonus(before),
                       after_repay |-> Bonus(repaid),
                       after_crank |-> Bonus(cranked)]
    /\ UNCHANGED <<rate_in, lendingVars, creditVars, lpVars>>

NextScore == eval_score \/ eval_bonus

SpecScore == InitScore /\ [][NextScore]_vars

NextRate == eval_rate

SpecRate == InitRate /\ [][NextRate]_vars

----------------------------------------------------------------------------
(* Properties of the position ledger (Spec)                                *)

\* C1: immediately after a successful borrow or withdraw_sol the position's
\* LTV at the price the call used, debt * 10000 / collateral value, is at
\* most 7500 bps plus the reputation bonus (a debt-free position has no LTV).
C1_LtvWithinLimit ==
    (result.op \in {"borrow", "withdraw_sol"} /\ result.err = "Ok") =>
        LET debt == lending_borrow_usd(position)
            coll == lending_collateral_usd(position, sol_price_feed.price_usd_6dec)
        IN debt = 0
           \/ (coll > 0 /\ MulDiv(debt, BPS_DENOMINATOR, coll)
                              <= effective_max_ltv(position))

\* a borrow that used the reputation bonus: 1 SOL at $150, bonus 100 bps,
\* debt one unit above the 7500 bps line
C1_Witness ==
    /\ result.op = "borrow" /\ result.err = "Ok"
    /\ get_ltv_bonus_bps(position.reputation) = 100
    /\ sol_price_feed.price_usd_6dec = 150000000
    /\ SolAmount(position) = 1000000000
    /\ lending_borrow_usd(position) = 112500001

\* C8: for a positive amount the vault can pay and a free borrow slot, borrow
\* succeeds exactly when debt + amount <= floor(collateral value *
\* effective max LTV / 10000), adding the amount to the debt, and fails
\* ExceedsLTV otherwise, changing nothing.
C8_BorrowLimitExact ==
    [][( /\ result'.op = "borrow"
         /\ now' = now
         /\ result'.amount > 0
         /\ lending_vault[result'.asset] >= result'.amount
         /\ (FindIdx(position.borrows, result'.asset) # 0
               \/ Len(position.borrows) < MAX_BORROW_TYPES)
         /\ borrow(result'.asset, result'.amount) )
        => LET debt == lending_borrow_usd(position)
               coll == lending_collateral_usd(position,
                                              sol_price_feed.price_usd_6dec)
               limit == MulDiv(coll, effective_max_ltv(position), BPS_DENOMINATOR)
           IN IF debt + result'.amount <= limit
              THEN /\ result'.err = "Ok"
                   /\ lending_borrow_usd(position') = debt + result'.amount
                   /\ lending_vault'[result'.asset]
                        = lending_vault[result'.asset] - result'.amount
              ELSE /\ result'.err = "ExceedsLTV"
                   /\ UNCHANGED lendingVars]_vars

\* the example at one tenth of its scale: 1 SOL at $150, no debt before, no
\* bonus, and the borrow of exactly 75% of the collateral value went through
C8_Witness ==
    /\ result = [op |-> "borrow", err |-> "Ok", asset |-> "USDC",
                 amount |-> 112500000]
    /\ sol_price_feed.price_usd_6dec = 150000000
    /\ position.collaterals = <<[asset_type |-> "SOL", amount |-> 1000000000]>>
    /\ position.borrows = <<[asset_type |-> "USDC", amount |-> 112500000,
                             accrued_interest |-> 0]>>
    /\ get_ltv_bonus_bps(position.reputation) = 0

\* C10: no borrow or withdraw_sol succeeds on a SOL price that is more than
\* PRICE_STALENESS_THRESHOLD seconds old (a successful call stamps the
\* position's last_update with the time of the call).
C10_StalePriceRejected ==
    ~( /\ result.op \in {"borrow", "withdraw_sol"}
       /\ result.err = "Ok"
       /\ position.last_update - sol_price_feed.last_update
            > PRICE_STALENESS_THRESHOLD )

----------------------------------------------------------------------------
(* Properties of debt service (SpecRepay)                                  *)

\* what a position owes in one asset: <<accrued_interest, principal>>
Owed(pos, asset) ==
    LET i == FindIdx(pos.borrows, asset)
    IN IF i = 0 THEN <<0, 0>>
       ELSE <<pos.borrows[i].accrued_interest, pos.borrows[i].amount>>

\* the entries of a position in the assets other than one
OtherEntries(pos, asset) ==
    SelectSeq(pos.borrows, LAMBDA e : e.asset_type # asset)

\* C6: a successful repay(asset, amount) against interest I and principal P
\* moves A = min(amount, I + P) to the vault, leaves interest max(0, I - A)
\* and principal P - max(0, A - I), drops the entry exactly when both are
\* zero, and changes no other borrow entry.
C6_InterestFirst ==
    [][\A b \in Borrowables, a \in PartialRepayAmounts :
        (result'.op = "repay" /\ result'.err = "Ok" /\ repay(b, a))
        => LET I == Owed(position, b)[1]
               P == Owed(position, b)[2]
               A == Min(a, I + P)
               I2 == IF I >= A THEN I - A ELSE 0
               P2 == P - (IF A >= I THEN A - I ELSE 0)
           IN /\ result'.repay_amount = A
              /\ lending_vault'[b] = lending_vault[b] + A
              /\ Owed(position', b) = <<I2, P2>>
              /\ (FindIdx(position'.borrows, b) = 0) <=> (I2 = 0 /\ P2 = 0)
              /\ OtherEntries(position', b) = OtherEntries(position, b)]_vars

\* the amortization alone: the same statement with "what is owed in every
\* other asset stays as it was" in the place of "no other entry changes"
InterestFirstOwed ==
    [][\A b \in Borrowables, a \in PartialRepayAmounts :
        (result'.op = "repay" /\ result'.err = "Ok" /\ repay(b, a))
        => LET I == Owed(position, b)[1]
               P == Owed(position, b)[2]
               A == Min(a, I + P)
               I2 == IF I >= A THEN I - A ELSE 0
               P2 == P - (IF A >= I THEN A - I ELSE 0)
           IN /\ result'.repay_amount = A
              /\ lending_vault'[b] = lending_vault[b] + A
              /\ Owed(position', b) = <<I2, P2>>
              /\ (FindIdx(position'.borrows, b) = 0) <=> (I2 = 0 /\ P2 = 0)
              /\ \A o \in Borrowables \ {b} :
                    Owed(position', o) = Owed(position, o)]_vars

\* a repayment smaller than the accrued interest: part of the interest is
\* left, the principal is whole, and the other asset is still owed
InterestFirstWitness ==
    /\ result.op = "repay" /\ result.err = "Ok" /\ result.asset = "USDC"
    /\ result.repay_amount = 500
    /\ Owed(position, "USDC")[1] > 0
    /\ Owed(position, "USDC")[2] = 100000000
    /\ Owed(position, "EURC")[2] = 12500000

----------------------------------------------------------------------------
(* Properties of the GAD crank (SpecGad)                                   *)

IsCrank ==
    \/ crank_gad
    \/ \E i \in SwapInputs, u \in SwapOutputs : crank_gad_with_swap(i, u, SwapMinOut)

\* C3: a successful crank_gad leaves the position with a strictly lower LTV
\* (bps, at the unchanged price) than the LTV the crank started from.
C3_CrankLowersLtv ==
    (result.op = "crank_gad" /\ result.err = "Ok") =>
        LET debt == calculate_borrow_value(position)
            coll == calculate_collateral_value(position, sol_price_feed)
        IN debt = 0
           \/ (coll > 0 /\ MulDiv(debt, BPS_DENOMINATOR, coll)
                              < result.ltv_before_bps)

\* C5: last_gad_crank moves only by a successful crank, to the time of that
\* crank and at least MIN_GAD_CRANK_INTERVAL after its previous value; every
\* successful crank moves it so; a crank attempted earlier than that is
\* rejected and changes nothing, with CrankTooSoon once the enabled and
\* has-debt guards that precede the interval guard are passed.
C5_CrankSerialization ==
    [][ /\ (position'.last_gad_crank # position.last_gad_crank)
            => /\ IsCrank /\ result'.err = "Ok"
               /\ position'.last_gad_crank = now
               /\ now - position.last_gad_crank >= MIN_GAD_CRANK_INTERVAL
        /\ (IsCrank /\ result'.err = "Ok")
            => /\ position'.last_gad_crank = now
               /\ now - position.last_gad_crank >= MIN_GAD_CRANK_INTERVAL
        /\ (IsCrank /\ now - position.last_gad_crank < MIN_GAD_CRANK_INTERVAL)
            => /\ result'.err # "Ok"
               /\ UNCHANGED lendingVars
               /\ (position.gad_enabled /\ position.borrows # <<>>)
                    => result'.err = "CrankTooSoon" ]_vars

\* a crank rejected as too soon right after two accepted cranks, the second
\* of them at the present time
C5_Witness ==
    /\ result.op \in {"crank_gad", "crank_gad_with_swap"}
    /\ result.err = "CrankTooSoon"
    /\ position.reputation.gad_events = 2
    /\ position.last_gad_crank = now

\* the position's LTV at the feed price is at most the maximum
HealthyAt(pos, feed, t) ==
    CrankCalc(pos, feed, t).current_ltv_bps <= DEFAULT_SOL_MAX_LTV_BPS

\* C12: a crank (crank_gad or crank_gad_with_swap) on a position whose
\* current_ltv_bps <= max_ltv_bps fails and changes neither collateral,
\* debt, last_gad_crank nor reputation.gad_events.
C12_NoCrankOnHealthy ==
    [][(IsCrank /\ HealthyAt(position, sol_price_feed, now))
        => /\ result'.err # "Ok"
           /\ position'.collaterals = position.collaterals
           /\ position'.borrows = position.borrows
           /\ position'.last_gad_crank = position.last_gad_crank
           /\ position'.reputation.gad_events
                = position.reputation.gad_events]_vars

GadLedgerOf(pos) ==
    <<pos.collaterals, pos.borrows, pos.last_gad_crank,
      pos.total_gad_liquidated_usd, pos.reputation.gad_events>>

\* C13: while gad_enabled is false every crank fails GadDisabled; while it
\* is true and the position has no borrow entries every crank fails
\* NoDebtToDeleverage; both leave collateral, debt, last_gad_crank,
\* total_gad_liquidated_usd and gad_events as they were; gad_enabled changes
\* only by a configure_gad signed by the position's owner.
C13_OptOutAndNoDebt ==
    [][ /\ (IsCrank /\ ~position.gad_enabled)
            => /\ result'.err = "GadDisabled"
               /\ GadLedgerOf(position') = GadLedgerOf(position)
        /\ (IsCrank /\ position.gad_enabled /\ position.borrows = <<>>)
            => /\ result'.err = "NoDebtToDeleverage"
               /\ GadLedgerOf(position') = GadLedgerOf(position)
        /\ (position'.gad_enabled # position.gad_enabled)
            => /\ result'.op = "configure_gad" /\ result'.err = "Ok"
               /\ result'.signer = position.owner ]_vars

\* a crank turned away from an opted-out position that is over the maximum
\* LTV with the interval elapsed
C13_Witness ==
    /\ result.op \in {"crank_gad", "crank_gad_with_swap"}
    /\ result.err = "GadDisabled"
    /\ ~position.gad_enabled
    /\ position.borrows # <<>>
    /\ now - position.last_gad_crank >= MIN_GAD_CRANK_INTERVAL
    /\ ~HealthyAt(position, sol_price_feed, now)

----------------------------------------------------------------------------
(* Properties of SOL custody (SpecCustody)                                 *)

\* C14: before and after every deposit_sol, withdraw_sol and crank_gad the
\* lamports in sol_vault equal the amount of the position's SOL entry, and a
\* successful crank takes liquidated + floor(liquidated * 50 / 10000) out of
\* the vault and lowers the entry by the same total.
C14_CustodyPaired ==
    [][ /\ sol_vault = SolAmount(position)
        /\ sol_vault' = SolAmount(position')
        /\ (crank_gad /\ result'.err = "Ok")
            => LET liquidated == CrankCalc(position, sol_price_feed, now).sol_to_liquidate
                   reward == (liquidated * 50) \div 10000
               IN /\ liquidated > 0
                  /\ result'.cranker_reward = reward
                  /\ sol_vault - sol_vault' = liquidated + reward
                  /\ SolAmount(position) - SolAmount(position')
                        = liquidated + reward ]_vars

\* the second crank of a position, paying a reward, the vault still holding
\* what the ledger says
C14_Witness ==
    /\ result.op = "crank_gad" /\ result.err = "Ok"
    /\ result.cranker_reward > 0
    /\ position.reputation.gad_events = 2
    /\ sol_vault = SolAmount(position)
    /\ sol_vault > 0

----------------------------------------------------------------------------
(* Properties of the entry lists (SpecEntries)                             *)

\* at most one entry per asset type
OnePerType(entries) ==
    \A i, j \in 1..Len(entries) :
        entries[i].asset_type = entries[j].asset_type => i = j

WithinBounds(pos) ==
    /\ Len(pos.collaterals) <= 8
    /\ Len(pos.borrows) <= 4
    /\ OnePerType(pos.collaterals)
    /\ OnePerType(pos.borrows)

\* C15: every state has at most 8 collateral entries and 4 borrow entries,
\* one per asset type in each list; a list grows only by one entry, of a type
\* it did not hold, in a successful instruction on a list that was not full;
\* and a rejection that names a full list is MaxCollateralTypesReached or
\* MaxBorrowTypesReached.
C15_PositionBounds ==
    [][ /\ WithinBounds(position) /\ WithinBounds(position')
        /\ (Len(position'.collaterals) > Len(position.collaterals))
            => /\ result'.err = "Ok"
               /\ Len(position.collaterals) < 8
               /\ Len(position'.collaterals) = Len(position.collaterals) + 1
        /\ (Len(position'.borrows) > Len(position.borrows))
            => /\ result'.err = "Ok"
               /\ Len(position.borrows) < 4
               /\ Len(position'.borrows) = Len(position.borrows) + 1
        /\ result'.err # "AccountDidNotSerialize" ]_vars

\* a full borrow list: four entries, the USDC one created by the auto-borrow
\* branch of x402_pay, next to both collateral types
C15_Witness ==
    /\ Len(position.borrows) = 4
    /\ Len(position.collaterals) = 2
    /\ result.op = "x402_pay" /\ result.err = "Ok" /\ result.borrowed > 0
    /\ position.borrows[4].asset_type = "USDC"
    /\ position.borrows[4].amount = result.borrowed


LedgerOps ==
    {"deposit_sol", "deposit_token", "borrow", "repay", "withdraw_sol",
     "accrue_position_interest", "crank_gad"}

-----------------------------------------------------------------------------
(* Properties of interest accrual (SpecAccrue)                             *)

IsAccrual == result'.op = "accrue_position_interest" /\ now' = now

\* C19: accrue_position_interest called less than 3600 seconds after
\* position.last_update succeeds and changes nothing; an accrual that does
\* add interest sets last_update to the time of the call, so a second call
\* at that timestamp or within the following hour leaves the state of the
\* first.
C19_AccrualThrottle ==
    [][ IsAccrual =>
          /\ result'.err = "Ok"
          /\ (now - position.last_update < 3600) =>
                /\ result'.skipped
                /\ UNCHANGED <<position, sol_price_feed, sol_vault,
                               lending_vault, offLedger>>
          /\ (now - position.last_update >= 3600) =>
                /\ ~result'.skipped
                /\ position'.last_update = now ]_vars

\* a call half an hour after an accrual that added interest
C19_Witness ==
    /\ result.op = "accrue_position_interest" /\ result.skipped
    /\ now = 5400 /\ position.last_update = 3600
    /\ Len(position.borrows) >= 1
    /\ position.borrows[1].accrued_interest > 0

\* floor(principal * rate_bps * dt / (31_557_600 * 10000))
InterestDue(principal, rate_bps, dt) ==
    MulDiv(principal, rate_bps * dt, SECONDS_PER_YEAR) \div BPS_DENOMINATOR

ClaimedRate == [USDC |-> 800, EURC |-> 700]

-----------------------------------------------------------------------------
(* Properties of emptied entries (SpecGad)                                 *)

RemnantOps ==
    {"deposit_sol", "deposit_token", "withdraw_sol", "repay",
     "agent_auto_repay", "crank_gad", "crank_gad_with_swap", "close_position"}

NoRemnants(pos) ==
    /\ \A i \in 1..Len(pos.collaterals) : pos.collaterals[i].amount # 0
    /\ \A i \in 1..Len(pos.borrows) :
          ~(pos.borrows[i].amount = 0 /\ pos.borrows[i].accrued_interest = 0)

\* C16: after every successful deposit_sol, deposit_token, withdraw_sol, repay,
\* agent_auto_repay, crank_gad, crank_gad_with_swap and close_position the
\* position has no collateral entry of amount 0 and no borrow entry whose
\* principal and accrued interest are both 0.
C16_NoZeroRemnants ==
    (result.op \in RemnantOps /\ result.err = "Ok") => NoRemnants(position)

----------------------------------------------------------------------------
(* Properties of the legasi-credit crank (SpecCredit)                      *)

\* C2: after every successful crank the collateral amount is at least the
\* configured min_collateral_floor.
C2_FloorHolds ==
    (result.op = "credit.crank_gad" /\ result.err = "Ok") =>
        credit_position.collateral_amount
            >= credit_position.gad_config.min_collateral_floor

----------------------------------------------------------------------------
(* Properties of the pool (SpecLp)                                         *)

\* C7: across every deposit, withdraw and accrue_interest that leaves the
\* pool with shares before and after, the share price total_deposits /
\* total_shares does not decrease (compared by cross-multiplication).
C7_SharePriceNonDecreasing ==
    [][(lp_pool.total_shares > 0 /\ lp_pool'.total_shares > 0) =>
          lp_pool'.total_deposits * lp_pool.total_shares
              >= lp_pool.total_deposits * lp_pool'.total_shares]_vars

\* a withdrawal whose payout was rounded down, leaving shares in the pool
C7_Witness ==
    /\ result.op = "lp.withdraw" /\ result.err = "Ok"
    /\ lp_pool.total_shares > 0
    /\ lp_pool.interest_earned > 0
    /\ (lp_pool.total_deposits + result.amount_received) * result.shares_burned
         > result.amount_received * (lp_pool.total_shares + result.shares_burned)

\* C24: a successful deposit mints the deposited amount when the pool has no
\* shares and floor(amount * total_shares / total_deposits) > 0 otherwise;
\* a withdrawal of exactly the shares the preceding deposit minted pays
\* floor(shares * total_deposits / total_shares), never more than was
\* deposited.
C24_RoundTrip ==
    [][/\ (result'.op = "lp.deposit" /\ result'.err = "Ok"
              /\ lp_pool' # lp_pool) =>
            /\ result'.shares_minted > 0
            /\ result'.shares_minted =
                  IF lp_pool.total_shares = 0 THEN result'.amount
                  ELSE (result'.amount * lp_pool.total_shares)
                          \div lp_pool.total_deposits
            /\ lp_pool'.total_shares
                  = lp_pool.total_shares + result'.shares_minted
       /\ (result.op = "lp.deposit" /\ result.err = "Ok"
              /\ result'.op = "lp.withdraw" /\ result'.err = "Ok"
              /\ result'.shares_burned = result.shares_minted) =>
            /\ result'.amount_received =
                  (result.shares_minted * lp_pool.total_deposits)
                      \div lp_pool.total_shares
            /\ result'.amount_received <= result.amount
      ]_vars

----------------------------------------------------------------------------
(* Properties of the fee split and of flash loans (SpecFlash)              *)

\* what a skim of v leaves the pool and the insurance fund with
SkimOf(v, pool, fund, pool2, fund2) ==
    LET insurance_fee == (v * INSURANCE_FEE_BPS) \div BPS_DENOMINATOR
    IN /\ fund2 = fund + insurance_fee
       /\ pool2.total_deposits = pool.total_deposits + (v - insurance_fee)
       /\ pool2.interest_earned = pool.interest_earned + (v - insurance_fee)
       /\ pool2.total_shares = pool.total_shares
       /\ pool2.total_borrowed = pool.total_borrowed
       /\ (pool2.total_deposits - pool.total_deposits) + (fund2 - fund) = v

\* C25: a successful accrue_interest(interest_amount) moves
\* floor(interest_amount * 500 / 10000) to the insurance fund and the rest to
\* total_deposits and interest_earned, shares and borrowed unchanged, so the
\* two increases add up to interest_amount; a successful flash_repay splits
\* the loan's fee in the same way.
C25_SkimConserves ==
    [][/\ (result'.op = "lp.accrue_interest" /\ result'.err = "Ok"
              /\ lp_pool' # lp_pool) =>
            SkimOf(result'.amount, lp_pool, insurance_fund,
                   lp_pool', insurance_fund')
       /\ (result'.op = "flash_repay" /\ result'.err = "Ok"
              /\ flash_state' # flash_state) =>
            SkimOf(result'.fee, lp_pool, insurance_fund,
                   lp_pool', insurance_fund')
      ]_vars

\* C28: once the slot has moved past the slot a flash loan was taken in, the
\* loan is repaid or the vault holds again what it held before the loan.
C28_FlashRepaidInSlot ==
    \A s \in Slots :
        (flash_state[s] # <<>> /\ flash_state[s].initiated_slot < slot
           /\ ~flash_state[s].repaid)
        => lp_vault >= FlashPoolTokens

\* C33: flash_repay succeeds only on an open loan in the slot flash_borrow
\* recorded as initiated_slot, and marks it repaid; in any other slot, or on a
\* loan already repaid, it fails FlashLoanNotRepaid and changes no account;
\* repaid turns true only by a successful flash_repay and stays true while
\* the account exists, and a new account starts unrepaid in the current slot;
\* close_flash_state succeeds only on a repaid loan.
C33_FlashStateMachine ==
    [][\A s \in Slots :
        /\ (flash_repay(s) /\ result'.err = "Ok") =>
              /\ flash_state[s] # <<>>
              /\ flash_state[s].initiated_slot = slot
              /\ ~flash_state[s].repaid
              /\ flash_state'[s] = [flash_state[s] EXCEPT !.repaid = TRUE]
        /\ (/\ flash_repay(s)
            /\ flash_state[s] # <<>>
            /\ (flash_state[s].initiated_slot # slot \/ flash_state[s].repaid)) =>
              /\ result'.err = "FlashLoanNotRepaid"
              /\ UNCHANGED accounts
        /\ (/\ flash_state[s] # <<>> /\ flash_state'[s] # <<>>
            /\ ~flash_state[s].repaid /\ flash_state'[s].repaid) =>
              (flash_repay(s) /\ result'.err = "Ok")
        /\ (flash_state[s] # <<>> /\ flash_state[s].repaid) =>
              (flash_state'[s] = <<>> \/ flash_state'[s].repaid)
        /\ (flash_state[s] = <<>> /\ flash_state'[s] # <<>>) =>
              /\ ~flash_state'[s].repaid
              /\ flash_state'[s].initiated_slot = slot
              /\ result'.op = "flash_borrow"
        /\ (close_flash_state(s) /\ result'.err = "Ok") =>
              /\ flash_state[s] # <<>>
              /\ flash_state[s].repaid
              /\ flash_state'[s] = <<>>
      ]_vars

\* a second flash_repay of the only loan, already repaid in its slot
C33_Witness ==
    /\ result = Outcome("flash_repay", "FlashLoanNotRepaid")
    /\ \E s \in Slots :
          /\ flash_state[s] # <<>>
          /\ flash_state[s].repaid
          /\ flash_state[s].initiated_slot = slot
          /\ \A t \in Slots \ {s} : flash_state[t] = <<>>

----------------------------------------------------------------------------
(* Properties of legasi-leverage                                           *)

\* C26: after a successful open_long the parent position's debt is within
\* its collateral value times the effective maximum LTV, as after a deposit
\* and a borrow made through the ledger.
C26_LeverageWithinLtv ==
    (result.op = "open_long" /\ result.err = "Ok") =>
        lending_borrow_usd(position)
            <= MulDiv(lending_collateral_usd(position,
                                             sol_price_feed.price_usd_6dec),
                      effective_max_ltv(position), BPS_DENOMINATOR)

\* C27: open_long creates an active record only for a multiplier in 2..5
\* and rejects any other with InvalidAmount; update_leverage_collateral and
\* close_position succeed only on an active record, an inactive one making
\* them fail with PositionNotFound; total_collateral never falls below
\* initial_collateral; close_position leaves the record in place with
\* is_active = false, and an inactive record never changes again.
C27_LeverageLifecycle ==
    [][/\ (leverage_position = <<>> /\ leverage_position' # <<>>) =>
            /\ result'.op = "open_long" /\ result'.err = "Ok"
            /\ leverage_position'.leverage_multiplier \in 2..5
            /\ leverage_position'.is_active
       /\ (result'.op = "open_long" /\ result' # result
              /\ result'.leverage_multiplier \notin 2..5) =>
            /\ result'.err \in {"InvalidAmount", "AccountInUse",
                                 "ConstraintHasOne"}
            /\ leverage_position = <<>> => result'.err # "AccountInUse"
            /\ leverage_position' = leverage_position
       /\ (result'.op \in {"update_leverage_collateral", "close_position"}
              /\ result'.err = "Ok") =>
            /\ leverage_position # <<>>
            /\ leverage_position.is_active
       /\ (result'.op \in {"update_leverage_collateral", "close_position"}
              /\ result' # result
              /\ leverage_position # <<>> /\ ~leverage_position.is_active) =>
            result'.err \in {"PositionNotFound", "ConstraintHasOne"}
       /\ leverage_position' # <<>> =>
            leverage_position'.total_collateral
                >= leverage_position'.initial_collateral
       /\ (result'.op = "close_position" /\ result'.err = "Ok") =>
            /\ leverage_position' # <<>>
            /\ leverage_position' =
                  [leverage_position EXCEPT !.is_active = FALSE]
       /\ (leverage_position # <<>> /\ ~leverage_position.is_active) =>
            leverage_position' = leverage_position
      ]_vars

\* a closed record that a later update_leverage_collateral by the owner was
\* refused on
C27_Witness ==
    /\ leverage_position # <<>>
    /\ ~leverage_position.is_active
    /\ result = Outcome("update_leverage_collateral", "PositionNotFound")

----------------------------------------------------------------------------
(* Properties of caller identity (SpecCaller)                              *)

CrankOrAccrual == {"crank_gad", "crank_gad_with_swap", "accrue_position_interest"}

\* C29: deposit_sol, deposit_token, borrow, repay, withdraw_sol,
\* configure_gad, agent_borrow and x402_pay sent by anyone but the position's
\* owner fail and change no account; update_price, set_paused and
\* register_collateral sent by anyone but the admin fail and change no
\* account; a step that is not the owner's and changes the position's
\* collateral or debt is a GAD crank or an interest accrual.
C29_CallerIdentity ==
    [][/\ (\E c \in PositionCallers \ {position.owner} : OwnerGated(c)) =>
            (result'.err # "Ok" /\ UNCHANGED accounts)
       /\ (\E c \in ProtocolCallers \ {ProtocolAdmin} : AdminGated(c)) =>
            (result'.err # "Ok" /\ UNCHANGED accounts)
       /\ ((position'.collaterals # position.collaterals
               \/ position'.borrows # position.borrows)
            /\ ~OwnerGated(position.owner)) =>
            (result'.op \in CrankOrAccrual /\ Permissionless)
      ]_vars

\* a withdrawal a stranger sent for a funded position, rejected
C29_Witness ==
    /\ result = Outcome("withdraw_sol", "ConstraintHasOne")
    /\ SolAmount(position) >= 500000000
    /\ sol_vault >= 500000000

----------------------------------------------------------------------------
(* Properties of the agent's daily limit (SpecAgent)                       *)

\* the step is one of the two borrowing instructions
AgentCalled ==
    \/ \E a \in AgentBorrowAmounts : agent_borrow("owner", a)
    \/ \E r \in AgentPayments, b \in BOOLEAN : x402_pay("owner", r, b)

\* the step is a successful agent_borrow, or an x402_pay that borrowed
AgentBorrowed ==
    /\ AgentCalled
    /\ result'.err = "Ok"
    /\ result'.op = "x402_pay" => result'.borrowed > 0

BorrowedNow == IF result'.op = "x402_pay" THEN result'.borrowed ELSE result'.amount

\* C30: after every successful agent_borrow or x402_pay auto-borrow,
\* daily_borrowed <= daily_borrow_limit; the borrow adds its amount to
\* daily_borrowed within the period, or opens a new period (period_start =
\* now, daily_borrowed = amount) when 86400 seconds or more have passed since
\* period_start; nothing else writes the two fields, so daily_borrowed is the
\* sum of the amounts borrowed since period_start; a borrow refused for the
\* limit changes no account.
C30_DailyBorrowLimit ==
    [][/\ AgentBorrowed =>
            /\ agent_config'.daily_borrowed <= agent_config'.daily_borrow_limit
            /\ IF now - agent_config.period_start >= SECONDS_PER_DAY
               THEN /\ agent_config'.period_start = now
                    /\ agent_config'.daily_borrowed = BorrowedNow
               ELSE /\ agent_config'.period_start = agent_config.period_start
                    /\ agent_config'.daily_borrowed =
                          agent_config.daily_borrowed + BorrowedNow
       /\ ~AgentBorrowed =>
            /\ agent_config'.daily_borrowed = agent_config.daily_borrowed
            /\ agent_config'.period_start = agent_config.period_start
       /\ (/\ AgentCalled
           /\ LET wanted == IF result'.op = "x402_pay"
                            THEN SatSub(result'.amount, agent_token_account)
                            ELSE result'.amount
                  spent == IF now - agent_config.period_start < SECONDS_PER_DAY
                           THEN agent_config.daily_borrowed ELSE 0
              IN wanted > 0 /\ spent + wanted > agent_config.daily_borrow_limit)
           => (result'.err # "Ok" /\ UNCHANGED accounts)
      ]_vars

\* a borrow of 30 USDC made a day or more after period_start opened a new
\* period on a position that had borrowed before
C30_Witness ==
    /\ result = [op |-> "agent_borrow", err |-> "Ok", amount |-> 30000000]
    /\ agent_config.period_start >= SECONDS_PER_DAY
    /\ agent_config.daily_borrowed = 30000000
    /\ lending_borrow_usd(position) >= 60000000

----------------------------------------------------------------------------
(* Properties of long-uncranked positions (SpecGadDays)                    *)

\* C34: whenever crank_gad passes its guards, whatever the time since the last
\* crank, the SOL it liquidates plus the cranker reward is at most the
\* position's SOL collateral, so that the crank can be carried out.
C34_CrankWithinCollateral ==
    LET c == CrankCalc(position, sol_price_feed, now)
    IN crank_gad_err(position, sol_price_feed, now, sol_vault)
            \in {"Ok", "TransferFailed"}
         => /\ c.total_sol_deducted <= SolAmount(position)
            /\ crank_gad_err(position, sol_price_feed, now, sol_vault) = "Ok"

----------------------------------------------------------------------------
(* Properties of the borrow limit against the GAD threshold (SpecBonus)    *)

\* the debt is within what borrow allows at the current price
WithinBorrowLimit ==
    lending_borrow_usd(position)
        <= MulDiv(lending_collateral_usd(position, sol_price_feed.price_usd_6dec),
                  effective_max_ltv(position), BPS_DENOMINATOR)

\* C35: at an unchanged price a position whose debt is within the limit
\* borrow enforces is not eligible for deleveraging: a crank_gad that reaches
\* the threshold guard is rejected with LtvBelowGadThreshold.
C35_LimitBelowThreshold ==
    (/\ WithinBorrowLimit
     /\ crank_gad_err(position, sol_price_feed, now, sol_vault)
            \notin {"GadDisabled", "NoDebtToDeleverage", "CrankTooSoon",
                     "InsufficientCollateral"})
    => crank_gad_err(position, sol_price_feed, now, sol_vault)
          = "LtvBelowGadThreshold"

----------------------------------------------------------------------------
(* Properties of the interest between two accruals (SpecBetween)           *)

\* C36: the USDC entry, its principal constant, has had no interest added
\* since the accrual at FirstAccrual; the next accrue_position_interest, an
\* hour or more after that accrual, adds floor(principal * 800 * (t1 - t0) /
\* (31_557_600 * 10000)), whatever deposit_sol, withdraw_sol or repay of
\* EURC came in between.
C36_InterestNotSkipped ==
    [][ LET principal == BetweenBorrows[2].amount
            first == InterestDue(principal, 800, FirstAccrual)
        IN (/\ accrue_position_interest
            /\ now - FirstAccrual >= 3600
            /\ PrincipalOf(position, "USDC") = principal
            /\ InterestOf(position, "USDC") = first)
           => InterestOf(position', "USDC")
                 = first + InterestDue(principal, 800, now - FirstAccrual) ]_vars

----------------------------------------------------------------------------
(* Properties of the instructions that add debt (SpecDebt)                 *)

\* C37: after a successful borrow, agent_borrow or x402_pay that borrowed,
\* the position's total debt is at most its collateral value times (7500 +
\* reputation bonus) / 10000.
C37_DebtWithinLimit ==
    (/\ result.err = "Ok"
     /\ \/ result.op \in {"borrow", "agent_borrow"}
        \/ result.op = "x402_pay" /\ result.borrowed > 0)
    => WithinBorrowLimit

----------------------------------------------------------------------------
(* Properties of the pause flag (SpecPause)                                *)

\* C40: while protocol.paused is true, deposit_sol, borrow, withdraw_sol and
\* crank_gad fail with ProtocolPaused and change neither the position nor
\* the vaults.
C40_PauseEffective ==
    [][(paused /\ PauseUserStep)
         => /\ result'.err = "ProtocolPaused"
            /\ UNCHANGED <<position, sol_vault, lending_vault>>]_vars

----------------------------------------------------------------------------
(* Properties of the legasi-credit ledger (SpecCreditLedger)               *)

\* C38: the lamports held in the position's collateral vault are at least
\* the position's recorded collateral_amount.
C38_CollateralBacked ==
    collateral_vault >= credit_position.collateral_amount

\* C39: protocol.total_collateral equals the collateral_amount of the
\* positions and protocol.total_borrowed their borrowed_amount (one position
\* here).
C39_TotalsMatchLedger ==
    /\ credit_protocol.total_collateral = credit_position.collateral_amount
    /\ credit_protocol.total_borrowed = credit_position.borrowed_amount

----------------------------------------------------------------------------
(* Properties of the crank's debt reduction (SpecGad)                      *)

\* C31: a successful crank_gad lowers the total debt by exactly
\* min(liquidated_usd, total_borrow_usd) with liquidated_usd =
\* floor(liquidated SOL * price / 10^9); each reduced entry loses interest
\* before principal; each entry's share of the reduction is its share of the
\* debt (to the unit).
C31_CrankReducesDebt ==
    [][(crank_gad /\ result'.err = "Ok") =>
        LET c == CrankCalc(position, sol_price_feed, now)
            total == calculate_borrow_value(position)
            cut == Min(c.liquidated_usd, total)
        IN /\ c.liquidated_usd = MulDiv(c.sol_to_liquidate,
                                         sol_price_feed.price_usd_6dec,
                                         LAMPORTS_PER_SOL)
           /\ calculate_borrow_value(position') = total - cut
           /\ \A a \in Borrowables :
                /\ PrincipalOf(position', a) < PrincipalOf(position, a)
                     => InterestOf(position', a) = 0
                /\ PrincipalOf(position', a) <= PrincipalOf(position, a)
                /\ InterestOf(position', a) <= InterestOf(position, a)
                /\ LET share == MulDiv(cut, OwedOf(position, a), total)
                       taken == OwedOf(position, a) - OwedOf(position', a)
                   IN taken \in {share, share + 1}
      ]_vars

----------------------------------------------------------------------------
(* Properties of the rate curve (SpecRate)                                 *)

\* the curve evaluated without a narrowing cast: 0 up to the threshold, else
\* min(1000, floor(excess^2 / 100)) with the square taken at full width
QuadraticRate(current_ltv_bps, max_ltv_bps) ==
    IF LimbLe(current_ltv_bps, max_ltv_bps) THEN ToU64(0)
    ELSE LET excess_bps == LimbSatSub(current_ltv_bps, max_ltv_bps)
             rate == LimbDiv(LimbSquare(excess_bps), 100)
         IN IF LimbLe(rate, ToU64(1000) \o ToU64(0)) THEN AsU64(rate)
            ELSE ToU64(1000)

\* C9: for every pair of u64 arguments both copies of get_gad_rate_bps
\* return 0 up to the threshold and min(1000, floor(excess^2 / 100)) above
\* it, and the result does not decrease as current_ltv_bps grows.
C9_RateCurve ==
    result.op = "get_gad_rate_bps" =>
        /\ result.gad = QuadraticRate(rate_in[1], rate_in[2])
        /\ result.credit = result.gad
        /\ \A lower \in RateInputs :
              LimbLe(lower, rate_in[1]) =>
                  LimbLe(get_gad_rate_bps(lower, rate_in[2]), result.gad)

----------------------------------------------------------------------------
(* Properties of the reputation score (SpecScore)                          *)

\* min(x * k, cap) with the product taken at full width
CappedProduct(x, k, cap) ==
    LET wide == LimbScale(x, k)
    IN IF LimbLe(wide, ToU32(cap) \o <<0>>) THEN FromU32(SubSeq(wide, 1, 4))
       ELSE cap

\* max(0, min(repayments * 50, 500) + min(age / 30 * 10, 100) - events * 100)
ScoreFormula(successful_repayments, account_age_days, gad_events) ==
    LET sum == CappedProduct(successful_repayments, 50, 500)
               + CappedProduct(SubSeq(LimbDiv(account_age_days, 30), 1, 4),
                               10, 100)
        penalty == CappedProduct(gad_events, 100, 600)
    IN IF penalty >= sum THEN 0 ELSE sum - penalty

\* C17: for all u32 counters get_score returns
\* max(0, min(successful_repayments * 50, 500)
\*        + min((account_age_days / 30) * 10, 100) - gad_events * 100)
\* with the products not wrapped, and get_ltv_bonus_bps returns 500 from
\* score 400, 300 from 200, 100 from 100 and 0 below.
C17_ScoreFormula ==
    result.op = "get_score" =>
        /\ result.err = "Ok"
        /\ result.score = ScoreFormula(rate_in[1], rate_in[2], rate_in[3])
        /\ result.bonus = (IF result.score >= 400 THEN 500
                           ELSE IF result.score >= 200 THEN 300
                           ELSE IF result.score >= 100 THEN 100
                           ELSE 0)

\* C18: the LTV bonus of a position is one of 0, 100, 300, 500; raising
\* successful_repayments by one, as a successful repay does, never lowers it,
\* and raising gad_events by one, as a successful crank does, never raises
\* it.
C18_BonusMonotone ==
    result.op = "get_ltv_bonus_bps" =>
        /\ \A b \in {result.before, result.after_repay, result.after_crank} :
              ~b.panic => b.bps \in {0, 100, 300, 500}
        /\ (~result.before.panic /\ ~result.after_repay.panic)
              => result.after_repay.bps >= result.before.bps
        /\ (~result.before.panic /\ ~result.after_crank.panic)
              => result.after_crank.bps <= result.before.bps

----------------------------------------------------------------------------
(* Properties of the borrow-rate curve (SpecBorrowRate)                    *)

\* floor(total_borrowed * 10000 / total_deposits) at full width, 16 limbs
UtilizationBps(total_deposits, total_borrowed) ==
    LimbDiv(LimbTimes(AsU128(total_borrowed), 10000), FromU64(total_deposits))

\* C20: calculate_borrow_rate returns 300 at zero utilization and when
\* total_deposits = 0, exactly 1100 at a utilization of 8000 bps, a value
\* strictly between 300 and 1100 at 5000 bps and above 1100 at 9500 bps, and
\* for fixed total_deposits > 0 it does not decrease as total_borrowed
\* grows.
C20_BorrowRateCurve ==
    result.op = "calculate_borrow_rate" =>
        LET total_deposits == rate_in[1]
            total_borrowed == rate_in[2]
            At(bps) == /\ total_deposits # ToU64(0)
                       /\ UtilizationBps(total_deposits, total_borrowed)
                            = AsU128(ToU64(bps))
            Below(a, b) == LimbLe(a, b) /\ a # b
        IN /\ total_deposits = ToU64(0) => result.rate = ToU64(300)
           /\ total_borrowed = ToU64(0) => result.rate = ToU64(300)
           /\ At(8000) => result.rate = ToU64(1100)
           /\ At(5000) => /\ Below(ToU64(300), result.rate)
                          /\ Below(result.rate, ToU64(1100))
           /\ At(9500) => Below(ToU64(1100), result.rate)
           /\ total_deposits # ToU64(0) =>
                 \A lower \in PoolBorrowedInputs :
                    LimbLe(lower, total_borrowed) =>
                        LimbLe(calculate_borrow_rate(total_deposits, lower),
                               result.rate)

----------------------------------------------------------------------------
(* Properties of the supply rate (SpecSupplyRate)                          *)

\* C21: for total_deposits > 0 and total_borrowed <= total_deposits the
\* supply rate is floor(floor(borrow_rate * utilization_bps / 10000) * 8000
\* / 10000) and strictly below the borrow rate; for total_deposits = 0 the
\* supply rate is 0.
C21_SupplyBelowBorrow ==
    result.op = "calculate_supply_rate" =>
        LET total_deposits == rate_in[1]
            total_borrowed == rate_in[2]
            utilization_bps == IF total_deposits = ToU64(0) THEN 0
                               ELSE MulDiv(FromU64(total_borrowed), 10000,
                                           FromU64(total_deposits))
            borrow_rate == FromU64(result.borrow)
        IN /\ total_deposits = ToU64(0) => result.supply = ToU64(0)
           /\ (total_deposits # ToU64(0) /\ LimbLe(total_borrowed, total_deposits))
                => /\ result.supply =
                        ToU64((((borrow_rate * utilization_bps) \div 10000)
                               * 8000) \div 10000)
                   /\ LimbLe(result.supply, result.borrow)
                   /\ result.supply # result.borrow

\* a fully borrowed pool: borrow rate 8600, supply rate 6880
C21_Witness ==
    /\ result.op = "calculate_supply_rate"
    /\ rate_in[1] # ToU64(0) /\ rate_in[2] = rate_in[1]
    /\ result.borrow = ToU64(8600) /\ result.supply = ToU64(6880)

----------------------------------------------------------------------------
(* Properties of the oracle sync (SpecOracle)                              *)

IsSync == result'.op = "sync_pyth_price" /\ now' = now

\* the quote is at most max_age seconds older than t, at full width
AtMostOld(publish_time, t, max_age) ==
    IF ~IsNegative(publish_time)
    THEN ~LimbLe(AsU64(LimbSum(publish_time, ToU64(max_age + 1))), ToU64(t))
    ELSE LimbLe(LimbSum(ToU64(t), Negated(publish_time)),
                ToU64(max_age) \o <<0>>)

\* floor(conf * 10000 / price) <= bound for price > 0, at full width
ConfidenceWithin(price, conf, bound) ==
    /\ ~IsNegative(price) /\ price # ToU64(0)
    /\ LimbLe(LimbDiv(LimbTimes(AsU128(conf), 10000), FromU64(price)),
              AsU128(ToU64(bound)))

\* C22: sync_pyth_price updates the feed only for a parsed quote that is at
\* most 60 seconds old and whose confidence is at most 500 bps of a positive
\* price, and then sets last_update to now and price_usd_6dec to
\* to_usd_6dec(quote); otherwise it fails (StalePriceFeed, InvalidOracle, or
\* a panic of the subtraction) and the feed is unchanged.
C22_SyncGated ==
    [][ IsSync =>
          LET quote == result'.quote
              accepted == /\ quote # <<>>
                          /\ AtMostOld(quote.publish_time, now, 60)
                          /\ ConfidenceWithin(quote.price, quote.conf, 500)
          IN /\ result'.err = "Ok" => accepted
             /\ accepted =>
                   /\ result'.err \in {"Ok", "Panic"}
                   /\ result'.err = "Ok" => sol_price_feed'.last_update = now
                   /\ result'.err = "Ok" =>
                        sol_price_feed'.price_usd_6dec =
                            FromU64(to_usd_6dec(quote.price, quote.expo))
             /\ ~accepted =>
                   /\ result'.err \in {"StalePriceFeed", "InvalidOracle",
                                       "Panic"}
                   /\ UNCHANGED sol_price_feed ]_vars

----------------------------------------------------------------------------
(* Properties of the price conversion (SpecConversion)                     *)

\* floor(price * 10^(6 + expo)) for price > 0, on 24 limbs
UsdValue(price, expo) ==
    IF 6 + expo >= 0
    THEN TimesPow10(price \o [i \in 1..16 |-> 0], 6 + expo)
    ELSE DivPow10(price \o [i \in 1..16 |-> 0], 0 - (6 + expo))

\* C23: to_usd_6dec returns floor(price * 10^(6 + expo)) for every quote
\* with price > 0, a value that does not exceed the true 6-decimal price,
\* and 0 for price <= 0; price 15_000_000_000 with expo -8 gives
\* 150_000_000.
C23_ConversionTruncates ==
    result.op = "to_usd_6dec" =>
        LET price == rate_in[1]
            expo == rate_in[2]
        IN /\ (IsNegative(price) \/ price = ToU64(0)) => result.usd = ToU64(0)
           /\ (~IsNegative(price) /\ price # ToU64(0)) =>
                 result.usd \o [i \in 1..16 |-> 0] = UsdValue(price, expo)
           /\ (price = U64(0, 3, 32273, 54784) /\ expo = -8) =>
                 result.usd = ToU64(150000000)

----------------------------------------------------------------------------
(* Properties of fair cranking (SpecGadFair)                               *)

Healthy ==
    LET c == CrankCalc(position, sol_price_feed, now)
    IN c.current_ltv_bps <= DEFAULT_SOL_MAX_LTV_BPS

DebtFree == lending_borrow_usd(position) = 0

\* C4: a position that starts with GAD enabled, debt and an LTV above the
\* maximum eventually becomes Healthy or debt-free when crank_gad is
\* attempted each time the interval has elapsed.
C4_EventuallyHealthy == <>(Healthy \/ DebtFree)

====
